---- MODULE Spec2Model ----
(***************************************************************************)
(* Streaming pipeline of the analytics backend: the per-symbol tick buffer *)
(* (app/ingestion.py), the resampling engine that folds ticks into 1s and  *)
(* 1m OHLCV bars and lists them (app/resampling.py), the minute bar        *)
(* finalizer (app/minute_bar_finalizer.py), the alert manager              *)
(* (app/alerts.py), the summary statistics of the analytics engine         *)
(* (app/analytics.py), the broadcast fabric (app/websocket_manager.py),    *)
(* the periodic job of the orchestrator (app/main.py) and the tick source  *)
(* (app/binance_client.py).                                                *)
(*                                                                         *)
(* Instants are integers in milliseconds.  Prices and quantities are       *)
(* integers standing for the floats of the code.  Python dicts are         *)
(* functions whose DOMAIN is the set of keys present.                      *)
(***************************************************************************)
EXTENDS Integers, Sequences, FiniteSets, TLC

VARIABLES
    ticks,                \* TickBuffer.ticks of every buffer of IngestionEngine.buffers
    last_tick,            \* TickBuffer.last_tick
    tick_count,           \* TickBuffer.tick_count
    second_bars,          \* ResamplingEngine.second_bars
    minute_bars,          \* ResamplingEngine.minute_bars
    current_second_bar,   \* ResamplingEngine.current_second_bar
    current_minute_bar,   \* ResamplingEngine.current_minute_bar
    now,                  \* the wall clock: datetime.now(timezone.utc), datetime.utcnow()
    ingested,             \* history: every tick ingested, by symbol, in ingest order
    folds,                \* history: the number of ticks folded so far
    sweeps,               \* history: the number of finalizer sweeps so far
    prev_time,            \* history: the trade-time of the last tick folded, by symbol
    last,                 \* history: the operation that produced this state, with its inputs
    archived,             \* history: every bar appended to a stored list, by interval and symbol
    reply,                \* the call that produced this state, with its result
    alerts,               \* AlertManager.alerts
    last_alert_time,      \* AlertManager.last_alert_time
    alert_callbacks,      \* AlertManager.alert_callbacks
    delivered,            \* history: every invocation of a subscriber callback, in order
    emitted,              \* history: every alert created, with its key and instant, in order
    calls,                \* history: the number of calls of the alert manager so far
    connections,          \* ConnectionManager: the six pools (price_connections, ...), by topic
    all_connections,      \* ConnectionManager.all_connections
    lock,                 \* ConnectionManager.lock: <<>> when free, else the call holding it
    closed,               \* the websockets whose peer has gone away
    publishes,            \* the calls of broadcast_to_pool in progress, by message
    sent,                 \* history: the frames each accepted websocket was sent, in order
    job,                  \* analytics_processor: its position and the locals of its iteration
    is_running,           \* BinanceClient.is_running
    websocket,            \* BinanceClient.websocket: <<>> when None
    reconnect_attempt,    \* the local reconnect_attempt of BinanceClient.start
    message_count,        \* BinanceClient.message_count
    source,               \* BinanceClient.start: its position, the delay it sleeps, and counts
    stopper,              \* BinanceClient.stop: its position
    transport,            \* the connection to the exchange: "none", "open" or "closed"
    dispatched,           \* history: every invocation of a tick callback, in order
    tick_callbacks,       \* BinanceClient.callbacks
    running,              \* MinuteBarFinalizer.running
    finalizer,            \* MinuteBarFinalizer._run: its position and the exceptions it caught
    processor,            \* analytics_processor as a loop: its position, the uses of the
                          \* settings in its iteration, and the exceptions it caught
    current_settings      \* the global current_settings of main.py

bufferVars == <<ticks, last_tick, tick_count>>
barVars == <<second_bars, minute_bars, current_second_bar, current_minute_bar>>
historyVars == <<ingested, folds, sweeps, prev_time, last>>


alertVars == <<alerts, last_alert_time, alert_callbacks, delivered, emitted, calls>>

\* the variables that the resampler, the finalizer and the tick buffer leave alone
restVars == <<now, archived, reply, alertVars>>

fabricVars == <<connections, all_connections, lock, closed, publishes, sent>>

sourceVars == <<is_running, websocket, reconnect_attempt, message_count, source,
                stopper, transport, dispatched, tick_callbacks>>

\* the variables of the broadcast fabric, of the orchestrator and of the tick source
\* the variables of the periodic loops and of the settings
loopVars == <<running, finalizer, processor, current_settings>>

netVars == <<fabricVars, job, loopVars, sourceVars, loopVars>>

vars == <<bufferVars, barVars, historyVars, restVars, netVars>>

----------------------------------------------------------------------------
(* Bounds of the model *)

MaxFolds == 3        \* ticks folded by the resampling engine in one behaviour
MaxSweeps == 2       \* sweeps of the finalizer in one behaviour
MaxIngests == 4      \* ticks ingested by the ingestion engine in one behaviour
MaxLiveFolds == 2    \* ticks folded before the upstream falls silent (SpecLive)
MaxCapFolds == 4     \* ticks folded in one behaviour of SpecCap
MaxQueryFolds == 3   \* ticks folded in one behaviour of SpecBars
MaxN == 2            \* the largest n of a query
MaxCalls == 4        \* calls of the alert manager in one behaviour
MaxCallbacks == 2    \* subscriber callbacks of the alert manager (SpecNotify)
MaxNotifyCalls == 3  \* calls of create_alert in one behaviour of SpecNotify
MaxLimit == 3        \* the largest limit of get_active_alerts
MaxSubscribers == 1  \* callbacks subscribed to the alert manager in one behaviour
MaxRuleCalls == 2    \* calls of the alert rules in one behaviour
MaxIterations == 2   \* iterations of analytics_processor in one behaviour
MaxFrames == 2       \* frames handled by the tick source in one behaviour
MaxConnects == 3     \* connection attempts of the tick source in one behaviour
MaxLoopIterations == 3   \* iterations of analytics_processor as a loop in one behaviour
MaxTickTasks == 3    \* ticks the tick source hands to handle_tick in one behaviour
MaxTickCallbacks == 2 \* callbacks subscribed to the tick source in one behaviour

(* Program parameters, scaled down *)

max_bars_per_symbol == 2    \* ResamplingEngine.max_bars_per_symbol, 1000 in the code
TICK_BUFFER_SIZE == 2       \* settings.TICK_BUFFER_SIZE, 10000 in the code

max_alerts == 2             \* AlertManager.max_alerts, settings.MAX_ALERTS = 100 in the code

ROLLING_WINDOW == 3         \* settings.ROLLING_WINDOW, 20 in the code
CORRELATION_WINDOW == 4     \* settings.CORRELATION_WINDOW, 60 in the code
windowSize == 3             \* ControlSettings.windowSize, 20 in the code

(* Program constants *)

MsPerSecond == 1000
SecondsPerMinute == 60
GraceSeconds == 5
SecondsPerDay == 86400
cooldown_seconds == 60      \* AlertManager.cooldown_seconds = settings.ALERT_COOLDOWN_SECONDS
zScoreThreshold == 200      \* ControlSettings.zScoreThreshold = 2.0, in hundredths
BroadcastInterval == 1      \* await asyncio.sleep(1) of analytics_processor, in seconds
reconnect_delay == 5        \* BinanceClient.reconnect_delay, in seconds
max_reconnect_delay == 60   \* max_reconnect_delay of BinanceClient.start, in seconds
BASE_SYMBOL == "BTCUSDT"    \* settings.BASE_SYMBOL

\* the stream types of ConnectionManager.connect that have a pool
Topics == {"prices", "spread", "correlation", "summary", "alerts", "analytics"}
MinCorrelation == 50        \* min_threshold=0.5 of evaluate_summary_alerts, in hundredths
MaxVolatility == 50000      \* max_threshold=500.0 of evaluate_summary_alerts, in hundredths

MsPerMinute == SecondsPerMinute * MsPerSecond

(* Inputs *)

Symbols == {"BTCUSDT", "ETHUSDT"}
Intervals == {"1s", "1m"}
Prices == {1, 2}
Qtys == {1, 2}
Minutes == {0, 1, 2}

At(m, s, ms) == m * MsPerMinute + s * MsPerSecond + ms

\* trade-times: two seconds of every minute, one on and one off the second boundary
TickTimes == { At(m, 10, 0) : m \in Minutes } \cup { At(m, 59, 500) : m \in Minutes }

\* wall-clock instants of a sweep: inside and past the grace period of minute 2, and
\* past the grace period of minute 3
ClockTimes == { At(2, GraceSeconds, 750), At(2, GraceSeconds + 1, 250),
                At(3, GraceSeconds + 1, 250) }

----------------------------------------------------------------------------
(* Time arithmetic *)

\* tick_time.replace(microsecond=0)
FloorSecond(t) == t - (t % MsPerSecond)

\* tick_time.replace(second=0, microsecond=0)
FloorMinute(t) == t - (t % MsPerMinute)

\* datetime.second
SecondOf(t) == (t % MsPerMinute) \div MsPerSecond

Max(a, b) == IF a >= b THEN a ELSE b
Min(a, b) == IF a <= b THEN a ELSE b

----------------------------------------------------------------------------
(* Tick buffer *)

\* DequeAppend with a fault: a deque without maxlen
DequeAppendUnbounded(d, x, maxlen) == Append(d, x)

\* deque(maxlen).append: drops from the left when full
DequeAppend(d, x, maxlen) ==
    IF Len(d) >= maxlen THEN Append(Tail(d), x) ELSE Append(d, x)

Tick(sym, t, p, q) == [symbol |-> sym, price |-> p, timestamp |-> t, qty |-> q]

\* IngestionEngine.ingest_tick: get_or_create_buffer, then TickBuffer.add_tick
IngestTick(tick) ==
    LET sym == tick.symbol
        old == IF sym \in DOMAIN ticks THEN ticks[sym] ELSE <<>>
        cnt == IF sym \in DOMAIN tick_count THEN tick_count[sym] ELSE 0
        D == DOMAIN ticks \cup {sym}
    IN  /\ ticks' = [s \in D |-> IF s = sym
                                 THEN DequeAppend(old, tick, TICK_BUFFER_SIZE)
                                 ELSE ticks[s]]
        /\ last_tick' = [s \in D |-> IF s = sym THEN tick ELSE last_tick[s]]
        /\ tick_count' = [s \in D |-> IF s = sym THEN cnt + 1 ELSE tick_count[s]]

----------------------------------------------------------------------------
(* Python dict operations *)

Put(d, k, v) == [x \in DOMAIN d \cup {k} |-> IF x = k THEN v ELSE d[x]]
Del(d, k) == [x \in DOMAIN d \ {k} |-> d[x]]
Get(d, k, default) == IF k \in DOMAIN d THEN d[k] ELSE default

----------------------------------------------------------------------------
(* Resampling engine *)

\* Bar(...) as built from one tick.  The field `from` is history: the buckets
\* floor(trade-time, interval) of the ticks folded into the bar.
NewBar(sym, interval, start, p, q) ==
    [timestamp |-> start, open |-> p, high |-> p, low |-> p, close |-> p,
     volume |-> q, symbol |-> sym, interval |-> interval, from |-> {start}]

\* UpdateBar with a fault: low updated with max instead of min
UpdateBarLowByMax(bar, p, q, bucket) ==
    [bar EXCEPT !.high = Max(bar.high, p),
                !.low = Max(bar.low, p),
                !.close = p,
                !.volume = bar.volume + q,
                !.from = bar.from \cup {bucket}]

\* the update of an existing bar by a tick of price p and quantity q
UpdateBar(bar, p, q, bucket) ==
    [bar EXCEPT !.high = Max(bar.high, p),
                !.low = Min(bar.low, p),
                !.close = p,
                !.volume = bar.volume + q,
                !.from = bar.from \cup {bucket}]

\* BarExists with a fault: the check for a stored bar of the timestamp never finds one
BarExistsNever(bar_list, timestamp) == FALSE

\* ResamplingEngine._bar_exists
BarExists(bar_list, timestamp) ==
    \E i \in 1..Len(bar_list) : bar_list[i].timestamp = timestamp

\* Trim with a fault: the oldest bars are kept, bars[:max_bars_per_symbol]
TrimKeepsOldest(bar_list) ==
    IF Len(bar_list) > max_bars_per_symbol
    THEN SubSeq(bar_list, 1, max_bars_per_symbol)
    ELSE bar_list

\* bars[-max_bars_per_symbol:] when len(bars) > max_bars_per_symbol
Trim(bar_list) ==
    IF Len(bar_list) > max_bars_per_symbol
    THEN SubSeq(bar_list, Len(bar_list) - max_bars_per_symbol + 1, Len(bar_list))
    ELSE bar_list

\* StoreBar with a fault: a stored bar of the same timestamp is overwritten
StoreBarUpsert(stored, sym, bar) ==
    LET s1 == IF sym \in DOMAIN stored THEN stored ELSE Put(stored, sym, <<>>)
    IN  IF \E i \in 1..Len(s1[sym]) : s1[sym][i].timestamp = bar.timestamp
        THEN Put(s1, sym, [i \in 1..Len(s1[sym]) |->
                              IF s1[sym][i].timestamp = bar.timestamp
                              THEN bar ELSE s1[sym][i]])
        ELSE Put(s1, sym, Trim(Append(s1[sym], bar)))

\* append a completed bar to stored[sym] unless a bar of its timestamp is there
StoreBar(stored, sym, bar) ==
    LET s1 == IF sym \in DOMAIN stored THEN stored ELSE Put(stored, sym, <<>>)
    IN  IF ~BarExists(s1[sym], bar.timestamp)
        THEN Put(s1, sym, Trim(Append(s1[sym], bar)))
        ELSE s1

\* ResamplingEngine._process_second_bar: the dicts after the tick
SecondBarStep(stored, current, sym, t, p, q) ==
    LET second_start == FloorSecond(t)
    IN  IF sym \notin DOMAIN current \/ current[sym].timestamp # second_start
        THEN [stored |-> IF sym \in DOMAIN current
                         THEN StoreBar(stored, sym, current[sym])
                         ELSE stored,
              current |-> Put(current, sym, NewBar(sym, "1s", second_start, p, q))]
        ELSE [stored |-> stored,
              current |-> Put(current, sym,
                              UpdateBar(current[sym], p, q, second_start))]

\* MinuteBarStep with a fault: the bar of the closed minute is dropped, not stored
MinuteBarStepNoStore(stored, current, sym, t, p, q) ==
    LET minute_start == FloorMinute(t)
        finalize == sym \in DOMAIN current /\ current[sym].timestamp < minute_start
        current1 == IF finalize THEN Del(current, sym) ELSE current
    IN  IF sym \notin DOMAIN current1
        THEN [stored |-> stored,
              current |-> Put(current1, sym, NewBar(sym, "1m", minute_start, p, q))]
        ELSE [stored |-> stored,
              current |-> Put(current1, sym,
                              UpdateBar(current1[sym], p, q, minute_start))]

\* ResamplingEngine._process_minute_bar: the dicts after the tick
MinuteBarStep(stored, current, sym, t, p, q) ==
    LET minute_start == FloorMinute(t)
        finalize == sym \in DOMAIN current /\ current[sym].timestamp < minute_start
        stored1 == IF finalize THEN StoreBar(stored, sym, current[sym]) ELSE stored
        current1 == IF finalize THEN Del(current, sym) ELSE current
    IN  IF sym \notin DOMAIN current1
        THEN [stored |-> stored1,
              current |-> Put(current1, sym, NewBar(sym, "1m", minute_start, p, q))]
        ELSE [stored |-> stored1,
              current |-> Put(current1, sym,
                              UpdateBar(current1[sym], p, q, minute_start))]

\* ResamplingEngine.process_ticks([tick], symbol) -> _process_tick
ProcessTick(sym, t, p, q) ==
    LET sec == SecondBarStep(second_bars, current_second_bar, sym, t, p, q)
        min == MinuteBarStep(minute_bars, current_minute_bar, sym, t, p, q)
    IN  /\ second_bars' = sec.stored
        /\ current_second_bar' = sec.current
        /\ minute_bars' = min.stored
        /\ current_minute_bar' = min.current

----------------------------------------------------------------------------
(* Bar listing *)

Stored(d, sym) == IF sym \in DOMAIN d THEN d[sym] ELSE <<>>

\* the dictionary get_bars builds from a Bar
BarDict(bar) ==
    [timestamp |-> bar.timestamp, open |-> bar.open, high |-> bar.high,
     low |-> bar.low, close |-> bar.close, volume |-> bar.volume,
     symbol |-> bar.symbol]

\* x put into a list sorted by timestamp, after the elements of a timestamp <= its own
InsertByTimestamp(sorted, x) ==
    LET k == Cardinality({ i \in 1..Len(sorted) : sorted[i].timestamp <= x.timestamp })
    IN  SubSeq(sorted, 1, k) \o <<x>> \o SubSeq(sorted, k + 1, Len(sorted))

\* result.sort(key=lambda x: x['timestamp']): a stable sort
RECURSIVE SortByTimestamp(_)
SortByTimestamp(result) ==
    IF result = <<>> THEN <<>>
    ELSE InsertByTimestamp(SortByTimestamp(SubSeq(result, 1, Len(result) - 1)),
                           result[Len(result)])

\* the Python slice result[start:]
SliceFrom(result, start) ==
    LET first == IF start < 0 THEN Max(Len(result) + start, 0)
                 ELSE Min(start, Len(result))
    IN  SubSeq(result, first + 1, Len(result))

\* one branch of get_bars: the stored bars, the current bar if any, sorted,
\* then result[-n:] if len(result) > n else result
GetBarsOf(stored, current, sym, n) ==
    LET stored_bars == Stored(stored, sym)
        result0 == [i \in 1..Len(stored_bars) |-> BarDict(stored_bars[i])]
        result1 == IF sym \in DOMAIN current
                   THEN Append(result0, BarDict(current[sym]))
                   ELSE result0
        result == SortByTimestamp(result1)
    IN  IF Len(result) > n THEN SliceFrom(result, 0 - n) ELSE result

\* ResamplingEngine.get_bars
GetBars(sym, interval, n) ==
    CASE interval = "1m" -> GetBarsOf(minute_bars, current_minute_bar, sym, n)
      [] interval = "1s" -> GetBarsOf(second_bars, current_second_bar, sym, n)
      [] OTHER -> <<>>

\* the symbols of a list
Range(symbols) == { symbols[i] : i \in 1..Len(symbols) }

\* min(len(bars) for bars in all_bars.values())
MinLength(all_bars) ==
    CHOOSE m \in { Len(all_bars[s]) : s \in DOMAIN all_bars } :
        \A s \in DOMAIN all_bars : m <= Len(all_bars[s])

\* the Python index bars[i] for a negative i
FromEnd(bars, i) == bars[Len(bars) + i + 1]

\* the symbols of the list that have a bar at index i, in list order
HavingBar(symbols, all_bars, i) ==
    SelectSeq(symbols, LAMBDA s : Len(all_bars[s]) >= 0 - i)

\* combined_bar of get_price_history for the index i: the timestamp of the first
\* symbol that has a bar at i, and the close of every symbol that has one
CombinedBar(symbols, all_bars, i) ==
    LET having == HavingBar(symbols, all_bars, i)
    IN  [key \in {"timestamp"} \cup Range(having) |->
            IF key = "timestamp" THEN FromEnd(all_bars[having[1]], i).timestamp
            ELSE FromEnd(all_bars[key], i).close]

\* PriceHistory with a fault: the rows are aligned from the head of the lists
PriceHistoryFromHead(symbols, interval, n) ==
    IF symbols = <<>> THEN <<>>
    ELSE LET all_bars == [s \in Range(symbols) |-> GetBars(s, interval, n)]
             min_length == MinLength(all_bars)
         IN  [k \in 1..min_length |->
                [key \in {"timestamp"} \cup Range(symbols) |->
                    IF key = "timestamp" THEN all_bars[symbols[1]][k].timestamp
                    ELSE all_bars[key][k].close]]

\* ResamplingEngine.get_price_history: the rows for i in range(-min_length, 0);
\* a row without a timestamp (no symbol has a bar at i) is left out
PriceHistory(symbols, interval, n) ==
    IF symbols = <<>> THEN <<>>
    ELSE LET all_bars == [s \in Range(symbols) |-> GetBars(s, interval, n)]
             min_length == MinLength(all_bars)
             indexes == [k \in 1..min_length |-> k - min_length - 1]
             kept == SelectSeq(indexes,
                               LAMBDA i : HavingBar(symbols, all_bars, i) # <<>>)
         IN  [k \in 1..Len(kept) |-> CombinedBar(symbols, all_bars, kept[k])]

----------------------------------------------------------------------------
(* Minute bar finalizer *)

\* ShouldFinalize with a fault: the grace period ends one second early
ShouldFinalizeAtGrace(bar, current_time) ==
    LET current_minute == FloorMinute(current_time)
        previous_minute == current_minute - MsPerMinute
    IN  \/ bar.timestamp < previous_minute
        \/ /\ bar.timestamp = previous_minute
           /\ SecondOf(current_time) >= GraceSeconds

\* the test of MinuteBarFinalizer._check_and_finalize on one current bar
ShouldFinalize(bar, current_time) ==
    LET current_minute == FloorMinute(current_time)
        previous_minute == current_minute - MsPerMinute
    IN  \/ bar.timestamp < previous_minute
        \/ /\ bar.timestamp = previous_minute
           /\ SecondOf(current_time) > GraceSeconds

\* FinalizeBar with a fault: the bar is stored and left in current_minute_bar
FinalizeBarKeepsCurrent(stored, current, sym) ==
    IF sym \notin DOMAIN current
    THEN [stored |-> stored, current |-> current]
    ELSE [stored |-> StoreBar(stored, sym, current[sym]), current |-> current]

\* MinuteBarFinalizer._finalize_bar: the dicts after finalizing sym
FinalizeBar(stored, current, sym) ==
    IF sym \notin DOMAIN current
    THEN [stored |-> stored, current |-> current]
    ELSE [stored |-> StoreBar(stored, sym, current[sym]),
          current |-> Del(current, sym)]

\* _finalize_bar on every symbol of a set; the symbols' bars are independent
RECURSIVE FinalizeAll(_, _, _)
FinalizeAll(stored, current, syms) ==
    IF syms = {} THEN [stored |-> stored, current |-> current]
    ELSE LET sym == CHOOSE s \in syms : TRUE
             r == FinalizeBar(stored, current, sym)
         IN  FinalizeAll(r.stored, r.current, syms \ {sym})

\* CheckAndFinalize with a fault: only the bars two minutes old or older are finalized
CheckAndFinalizeOlderOnly(current_time) ==
    LET symbols_to_finalize ==
            { s \in DOMAIN current_minute_bar :
                current_minute_bar[s].timestamp
                    < FloorMinute(current_time) - MsPerMinute }
        r == FinalizeAll(minute_bars, current_minute_bar, symbols_to_finalize)
    IN  /\ minute_bars' = r.stored
        /\ current_minute_bar' = r.current
        /\ UNCHANGED <<second_bars, current_second_bar>>

\* MinuteBarFinalizer._check_and_finalize at wall clock current_time
CheckAndFinalize(current_time) ==
    LET symbols_to_finalize ==
            { s \in DOMAIN current_minute_bar :
                ShouldFinalize(current_minute_bar[s], current_time) }
        r == FinalizeAll(minute_bars, current_minute_bar, symbols_to_finalize)
    IN  /\ minute_bars' = r.stored
        /\ current_minute_bar' = r.current
        /\ UNCHANGED <<second_bars, current_second_bar>>

----------------------------------------------------------------------------
(* Alert manager *)

\* the state of the alert manager and the wall clock, as one record
AlertState ==
    [alerts |-> alerts, last_alert_time |-> last_alert_time,
     alert_callbacks |-> alert_callbacks, delivered |-> delivered,
     emitted |-> emitted, now |-> now]

\* f"{alert_type}:{title}:{symbol}"; a symbol that is None prints as "None"
AlertKey(alert_type, title, symbol) == alert_type \o ":" \o title \o ":" \o symbol

\* datetime.utcnow().strftime('%H:%M:%S'), as the second of the day
DisplayTime(t) == (t \div MsPerSecond) % SecondsPerDay

\* ShouldFireAlert with a fault: the cooldown is measured from any key's last alert
ShouldFireAlertAnyKey(st, alert_key) ==
    \A k \in DOMAIN st.last_alert_time :
        st.now - st.last_alert_time[k] >= cooldown_seconds * MsPerSecond

\* AlertManager._should_fire_alert at the wall clock st.now
ShouldFireAlert(st, alert_key) ==
    \/ alert_key \notin DOMAIN st.last_alert_time
    \/ st.now - st.last_alert_time[alert_key] >= cooldown_seconds * MsPerSecond

\* RingAppend with a fault: a full ring refuses the new alert
RingAppendKeepsOldest(ring, alert) ==
    IF Len(ring) >= max_alerts THEN ring ELSE Append(ring, alert)

\* self.alerts.append(alert) on deque(maxlen=self.max_alerts)
RingAppend(ring, alert) == DequeAppend(ring, alert, max_alerts)

\* the callbacks whose call raises an exception
Raising == {"raising"}

\* Notify with a fault: the exception of a callback ends the loop
NotifyUntilRaise(callbacks, alert) ==
    LET stops == { c \in 1..Len(callbacks) : callbacks[c] \in Raising }
        end == IF stops = {} THEN Len(callbacks)
               ELSE CHOOSE c \in stops : \A e \in stops : c <= e
    IN  [c \in 1..end |-> [callback |-> callbacks[c], alert |-> alert]]

\* the invocations of the subscriber callbacks for one alert, in list order; the
\* exception of a callback is caught and logged inside the loop
Notify(callbacks, alert) ==
    [c \in 1..Len(callbacks) |-> [callback |-> callbacks[c], alert |-> alert]]

\* CreateAlert with a fault: a suppressed call refreshes last_alert_time
CreateAlertRefreshes(st, a, d) ==
    LET alert_key == AlertKey(a.type, a.title, a.symbol)
        t == st.now + d
    IN  IF ~ShouldFireAlert(st, alert_key)
        THEN [st |-> [st EXCEPT !.last_alert_time = Put(@, alert_key, t), !.now = t],
              alerts |-> <<>>]
        ELSE LET alert == [id |-> Len(st.emitted) + 1, type |-> a.type,
                           title |-> a.title, timestamp |-> DisplayTime(t),
                           symbol |-> a.symbol, value |-> a.value,
                           metric |-> a.metric, threshold |-> a.threshold,
                           direction |-> a.direction]
             IN  [st |-> [st EXCEPT
                            !.alerts = RingAppend(@, alert),
                            !.last_alert_time = Put(@, alert_key, t),
                            !.delivered = @ \o Notify(st.alert_callbacks, alert),
                            !.emitted = Append(@, [key |-> alert_key, at |-> t,
                                                   alert |-> alert]),
                            !.now = t],
                  alerts |-> <<alert>>]

\* AlertManager.create_alert with the arguments a, the wall clock moving on by d
\* between the cooldown check and the creation of the alert.  The result holds
\* the state after the call and the alert returned (none when suppressed).  The
\* id is uuid4, modelled as the number of the alert; the message is left out.
CreateAlert(st, a, d) ==
    LET alert_key == AlertKey(a.type, a.title, a.symbol)
        t == st.now + d
    IN  IF ~ShouldFireAlert(st, alert_key)
        THEN [st |-> st, alerts |-> <<>>]
        ELSE LET alert == [id |-> Len(st.emitted) + 1, type |-> a.type,
                           title |-> a.title, timestamp |-> DisplayTime(t),
                           symbol |-> a.symbol, value |-> a.value,
                           metric |-> a.metric, threshold |-> a.threshold,
                           direction |-> a.direction]
             IN  [st |-> [st EXCEPT
                            !.alerts = RingAppend(@, alert),
                            !.last_alert_time = Put(@, alert_key, t),
                            !.delivered = @ \o Notify(st.alert_callbacks, alert),
                            !.emitted = Append(@, [key |-> alert_key, at |-> t,
                                                   alert |-> alert]),
                            !.now = t],
                  alerts |-> <<alert>>]

(* The alert rules.  z-scores, correlations, volatilities and thresholds are   *)
(* integers in hundredths, standing for the floats of the code.                *)

Abs(x) == IF x < 0 THEN 0 - x ELSE x

\* threshold * 0.8
EightTenths(threshold) == (threshold * 8) \div 10

\* the outcome of a rule that creates no alert
NoAlert(st) == [st |-> st, alerts |-> <<>>]

\* EvaluateZscore with a fault: the direction is "above" whatever the sign
EvaluateZscoreAlwaysAbove(st, zscore, threshold, d) ==
    IF Abs(zscore) > threshold
    THEN CreateAlert(st, [type |-> "ALERT", title |-> "Z-Score Threshold Breach",
                          symbol |-> "None", value |-> zscore, metric |-> "z_score",
                          threshold |-> threshold, direction |-> "above"], d)
    ELSE IF Abs(zscore) > EightTenths(threshold)
    THEN CreateAlert(st, [type |-> "warning", title |-> "Z-Score Approaching Threshold",
                          symbol |-> "None", value |-> zscore, metric |-> "z_score",
                          threshold |-> EightTenths(threshold),
                          direction |-> "above"], d)
    ELSE NoAlert(st)

\* AlertManager.evaluate_zscore_alert
EvaluateZscore(st, zscore, threshold, d) ==
    IF Abs(zscore) > threshold
    THEN CreateAlert(st, [type |-> "ALERT", title |-> "Z-Score Threshold Breach",
                          symbol |-> "None", value |-> zscore, metric |-> "z_score",
                          threshold |-> threshold,
                          direction |-> IF zscore > 0 THEN "above" ELSE "below"], d)
    ELSE IF Abs(zscore) > EightTenths(threshold)
    THEN CreateAlert(st, [type |-> "warning", title |-> "Z-Score Approaching Threshold",
                          symbol |-> "None", value |-> zscore, metric |-> "z_score",
                          threshold |-> EightTenths(threshold),
                          direction |-> IF zscore > 0 THEN "above" ELSE "below"], d)
    ELSE NoAlert(st)

\* EvaluateCorrelation with a fault: the correlation is compared without abs
EvaluateCorrelationSigned(st, correlation, min_threshold, d) ==
    IF correlation < min_threshold
    THEN CreateAlert(st, [type |-> "warning", title |-> "Low Correlation Detected",
                          symbol |-> "None", value |-> correlation,
                          metric |-> "correlation", threshold |-> min_threshold,
                          direction |-> "below"], d)
    ELSE NoAlert(st)

\* AlertManager.evaluate_correlation_alert
EvaluateCorrelation(st, correlation, min_threshold, d) ==
    IF Abs(correlation) < min_threshold
    THEN CreateAlert(st, [type |-> "warning", title |-> "Low Correlation Detected",
                          symbol |-> "None", value |-> correlation,
                          metric |-> "correlation", threshold |-> min_threshold,
                          direction |-> "below"], d)
    ELSE NoAlert(st)

\* AlertManager.evaluate_volatility_alert
EvaluateVolatility(st, volatility, max_threshold, d) ==
    IF volatility > max_threshold
    THEN CreateAlert(st, [type |-> "warning", title |-> "High Volatility Alert",
                          symbol |-> "None", value |-> volatility,
                          metric |-> "volatility", threshold |-> max_threshold,
                          direction |-> "above"], d)
    ELSE NoAlert(st)

\* AlertManager.evaluate_summary_alerts: the z-score rule when |z| exceeds the
\* threshold, then the correlation rule, then the volatility rule
EvaluateSummary(st, summary, zscore_threshold, d) ==
    LET r1 == IF Abs(summary.zScore) > zscore_threshold
              THEN EvaluateZscore(st, summary.zScore, zscore_threshold, d)
              ELSE NoAlert(st)
        r2 == EvaluateCorrelation(r1.st, summary.correlation, MinCorrelation, d)
        r3 == EvaluateVolatility(r2.st, summary.rollingVolatility, MaxVolatility, d)
    IN  [st |-> r3.st, alerts |-> r1.alerts \o r2.alerts \o r3.alerts]

(* Optional arguments and results are sequences: <<>> is None, <<v>> is v.    *)

\* the truth value Python gives an optional integer: None and 0 are false
Truthy(x) == x # <<>> /\ x[1] # 0

RECURSIVE Reverse(_)
\* list.reverse()
Reverse(seq) ==
    IF seq = <<>> THEN <<>> ELSE Append(Reverse(Tail(seq)), Head(seq))

\* seq[:k]: the first k elements, and all but the last -k when k is negative
Prefix(seq, k) ==
    LET end == IF k >= 0 THEN (IF k < Len(seq) THEN k ELSE Len(seq))
               ELSE (IF Len(seq) + k > 0 THEN Len(seq) + k ELSE 0)
    IN  SubSeq(seq, 1, end)

\* AlertManager.get_active_alerts: a reversed copy of the ring, cut to limit
\* when limit is truthy
GetActiveAlerts(ring, limit) ==
    LET newest_first == Reverse(ring)
    IN  IF Truthy(limit) THEN Prefix(newest_first, limit[1]) ELSE newest_first

\* the variables of the alert manager and the wall clock take the values of st
SetAlertState(st) ==
    /\ alerts' = st.alerts
    /\ last_alert_time' = st.last_alert_time
    /\ alert_callbacks' = st.alert_callbacks
    /\ delivered' = st.delivered
    /\ emitted' = st.emitted
    /\ now' = st.now

----------------------------------------------------------------------------
(* Analytics engine: the summary statistics.  A standard deviation is an       *)
(* integer in hundredths, truncated to tenths.  The regressions behind the     *)
(* spread and the correlation are not computed: compute_spread_analysis and    *)
(* compute_correlation return nothing for a history shorter than their         *)
(* windows, and else a value that is an input of the model.                    *)

\* a row of a price history that is a Python dict (get_price_history)
DictRow(items) == [kind |-> "dict", items |-> items]

\* getattr(p, name, None): the keys of a dict are not attributes of it
GetAttr(p, name) ==
    IF p.kind = "object" /\ name \in DOMAIN p.items THEN <<p.items[name]>> ELSE <<>>

RECURSIVE Concat(_)
\* the values present in a list of optional values, in order
Concat(options) ==
    IF options = <<>> THEN <<>> ELSE Head(options) \o Concat(Tail(options))

\* compute_summary_stats: the base prices of the rolling statistics
BasePrices(price_history) ==
    Concat([k \in 1..Len(price_history) |-> GetAttr(price_history[k], BASE_SYMBOL)])

RECURSIVE Sum(_)
Sum(values) == IF values = <<>> THEN 0 ELSE Head(values) + Sum(Tail(values))

RECURSIVE Bisect(_, _, _)
\* the largest r in lo..hi with r * r <= x
Bisect(x, lo, hi) ==
    IF lo >= hi THEN lo
    ELSE LET mid == (lo + hi + 1) \div 2
         IN  IF mid * mid <= x THEN Bisect(x, mid, hi) ELSE Bisect(x, lo, mid - 1)

\* the integer part of the square root of x
ISqrt(x) == Bisect(x, 0, Min(x, 46340))

\* np.std(values, ddof=1) of two values or more, in hundredths
SampleStd(values) ==
    LET n == Len(values)
        squares == [k \in 1..n |-> values[k] * values[k]]
        numerator == n * Sum(squares) - Sum(values) * Sum(values)
    IN  ISqrt((numerator * 100) \div (n * (n - 1))) * 10

\* StatisticsCalculator.rolling_std
RollingStd(prices, window) ==
    IF Len(prices) < window THEN <<>>
    ELSE <<SampleStd(SliceFrom(prices, 0 - window))>>

\* x or 0.0
OrZero(x) == IF Truthy(x) THEN x[1] ELSE 0

\* compute_zscore: 0.0 for a spread that did not move within the window (the
\* base closed at one price), and else a value that is an input of the model
ZScoreOf(price_history) ==
    IF \A k \in 1..Len(price_history) :
          price_history[k].items[BASE_SYMBOL] = price_history[1].items[BASE_SYMBOL]
    THEN 0 ELSE 260

\* what compute_spread_analysis can return for a history: None when a series is
\* shorter than the window of the spread analyzer; the regression is taken to
\* succeed
SpreadOutcomes(price_history) ==
    IF Len(price_history) >= ROLLING_WINDOW
    THEN { <<[spread |-> 12, zScore |-> z]>> : z \in {ZScoreOf(price_history)} }
    ELSE {<<>>}

\* what compute_correlation can return for a history
CorrelationOutcomes(price_history) ==
    IF Len(price_history) >= CORRELATION_WINDOW
    THEN { <<[correlation |-> rho]>> : rho \in {40} }
    ELSE {<<>>}

\* AnalyticsEngine.compute_summary_stats, given what the spread analysis and the
\* correlation return for the history; latestPrices and rollingMean are left out
ComputeSummaryStats(price_history, spread_data, corr_data, window) ==
    IF Len(price_history) < 2 THEN <<>>
    ELSE <<[spread |-> IF spread_data # <<>> THEN spread_data[1].spread ELSE 0,
            zScore |-> IF spread_data # <<>> THEN spread_data[1].zScore ELSE 0,
            correlation |-> IF corr_data # <<>> THEN corr_data[1].correlation ELSE 0,
            rollingVolatility |-> OrZero(RollingStd(BasePrices(price_history), window))]>>

----------------------------------------------------------------------------
(* Broadcast fabric (app/websocket_manager.py).  A websocket is a number; a     *)
(* frame is the message it carries.  The calls of broadcast_to_pool in         *)
(* progress are kept by their message; a call that is over is kept until the   *)
(* coroutine that awaits it goes on.                                           *)

\* a call of broadcast_to_pool that has not run yet (a task, or a coroutine about
\* to be awaited).  size, start and visited are the iterator of `for connection
\* in connections`, which walks the pool itself
Created(topic, message) ==
    [topic |-> topic, message |-> message, pc |-> "created", size |-> 0,
     start |-> {}, visited |-> {}, current |-> 0, failed |-> {}]

\* the order in which the iterator of a set yields its elements: the order of
\* the hash table, the same for every iteration over an unchanged set
Before(a, b) == a < b

\* the for statement asks the iterator of the pool for the next connection: a
\* set whose size changed raises RuntimeError.  send_text on a websocket whose
\* peer has gone raises at once, the connection is marked failed and the loop
\* goes on; on the first websocket that is open the frame is written and the
\* call is suspended.  At the end of the loop the call returns, or turns to the
\* cleanup of the failed connections; the iterator of a set that was changed
\* and has its old size may come to its end early
NextConnection(p, pool) ==
    LET unvisited == pool \ p.visited
        open == unvisited \ closed
        c == CHOOSE a \in open : \A b \in open : a = b \/ Before(a, b)
        skipped == { d \in unvisited \ open : open # {} => Before(d, c) }
        ended(failed) == IF failed = {} THEN "returned" ELSE "cleanup"
    IN  IF Cardinality(pool) # p.size
        THEN {[p EXCEPT !.pc = "raised", !.current = 0]}
        ELSE (IF open # {}
              THEN {[p EXCEPT !.pc = "sending", !.current = c,
                              !.visited = @ \cup skipped \cup {c},
                              !.failed = @ \cup skipped]}
              ELSE {[p EXCEPT !.pc = ended(p.failed \cup skipped), !.current = 0,
                              !.visited = @ \cup skipped,
                              !.failed = @ \cup skipped]})
             \cup IF open # {} /\ pool # p.start
                  THEN {[p EXCEPT !.pc = ended(p.failed), !.current = 0]}
                  ELSE {}

\* broadcast_to_pool up to its first suspension
BroadcastToPool(p, pool) ==
    IF pool = {} THEN {[p EXCEPT !.pc = "returned"]}
    ELSE NextConnection([p EXCEPT !.size = Cardinality(pool), !.start = pool], pool)

\* broadcast_to_pool resumed from send_text: the send raises when the peer went
\* away meanwhile, and the connection is marked failed; then the loop goes on
Resumed(p, pool) ==
    NextConnection(IF p.current \in closed
                   THEN [p EXCEPT !.failed = @ \cup {p.current}] ELSE p, pool)

\* the frames sent once the call p has gone on: send_text writes the frame when
\* it is called, before it suspends
Sent(p) ==
    IF p.pc = "sending" THEN [sent EXCEPT ![p.current] = Append(@, p.message)] ELSE sent

\* the place of a frame among the frames sent to a websocket
Place(ws, message) == CHOOSE i \in 1..Len(sent[ws]) : sent[ws][i] = message

\* the sends on one websocket are over in the order of their calls: the call p
\* is the first to go on among the calls suspended on its websocket
FirstToResume(p) ==
    \A k \in DOMAIN publishes :
        (publishes[k].pc = "sending" /\ publishes[k].current = p.current)
        => Place(p.current, p.message) <= Place(p.current, publishes[k].message)

\* the cleanup takes the lock (`async with self.lock`, line 130) and, holding it,
\* awaits disconnect, which waits for the same lock (line 82): asyncio.Lock is
\* not reentrant, so the call stays there, "blocked"; with the lock already
\* held it stays "waiting" at line 130
Cleanup(p) ==
    IF p.pc # "cleanup" THEN [pub |-> p, lock |-> lock]
    ELSE IF lock = <<>> THEN [pub |-> [p EXCEPT !.pc = "blocked"], lock |-> <<p.message>>]
    ELSE [pub |-> [p EXCEPT !.pc = "waiting"], lock |-> lock]

\* the call is over: it returned or it raised
Settled(p) == p.pc \in {"returned", "raised"}

\* ConnectionManager.connect of a new websocket; with the lock held the
\* coroutine waits at `async with self.lock`
Connect(ws, stream_type) ==
    /\ lock = <<>>
    /\ ws \notin DOMAIN sent
    /\ connections' = IF stream_type \in Topics
                      THEN [connections EXCEPT ![stream_type] = @ \cup {ws}]
                      ELSE connections
    /\ all_connections' = Put(all_connections, ws, stream_type)
    /\ sent' = Put(sent, ws, <<>>)
    /\ UNCHANGED <<lock, closed, publishes>>

\* ConnectionManager.disconnect, called by the endpoint of a websocket when
\* receive_text raises WebSocketDisconnect (main.py:687-774)
Disconnect(ws) ==
    /\ lock = <<>>
    /\ ws \in closed /\ ws \in DOMAIN all_connections
    /\ connections' = [t \in Topics |-> connections[t] \ {ws}]
    /\ all_connections' = Del(all_connections, ws)
    /\ UNCHANGED <<lock, closed, publishes, sent>>

\* the peer of an accepted websocket goes away
PeerCloses(ws) ==
    /\ ws \in DOMAIN sent /\ ws \notin closed
    /\ closed' = closed \cup {ws}
    /\ UNCHANGED <<connections, all_connections, lock, publishes, sent>>

\* a task that asyncio.gather or create_task made starts to run, up to its first
\* suspension.  A task nobody awaits is forgotten when it is over
PublishRun(k, awaited) ==
    /\ k \in DOMAIN publishes
    /\ publishes[k].pc = "created"
    /\ \E q \in BroadcastToPool(publishes[k], connections[publishes[k].topic]) :
          /\ publishes' = IF Settled(q) /\ k \notin awaited
                          THEN Del(publishes, k)
                          ELSE [publishes EXCEPT ![k] = Cleanup(q).pub]
          /\ lock' = Cleanup(q).lock
          /\ sent' = Sent(q)
    /\ UNCHANGED <<connections, all_connections, closed>>

\* send_text is over and the call goes on to its next suspension
PublishResume(k, awaited) ==
    /\ k \in DOMAIN publishes
    /\ publishes[k].pc = "sending"
    /\ LET p == publishes[k]
       IN  /\ FirstToResume(p)
           /\ \E q \in Resumed(p, connections[p.topic]) :
                 /\ sent' = Sent(q)
                 /\ publishes' = IF Settled(q) /\ k \notin awaited
                                 THEN Del(publishes, k)
                                 ELSE [publishes EXCEPT ![k] = Cleanup(q).pub]
                 /\ lock' = Cleanup(q).lock
    /\ UNCHANGED <<connections, all_connections, closed>>

----------------------------------------------------------------------------
(* Orchestrator: analytics_processor (app/main.py)                             *)

\* a call of the alert manager: the key and the wall clock of its cooldown check
\* (create_alert), its inputs (the evaluate calls), and the alerts it created
AlertReply(op, key, at, inputs, created) ==
    [op |-> op, key |-> key, at |-> at, inputs |-> inputs, result |-> created]

\* the job between two iterations, k iterations begun so far
Sleeping(k) ==
    [pc |-> "sleeping", iteration |-> k, prices_dict |-> <<>>, spread |-> 0,
     z_score |-> 0, correlation |-> 0, awaited |-> {}]

\* the frame of a topic in the iteration seq
Message(topic, seq) == [type |-> topic, seq |-> seq]

\* the calls of broadcast_to_pool for the messages of a set, not yet run
Tasks(topic, messages) == [k \in messages |-> Created(topic, k)]

\* on_alert (main.py:224): a task that broadcasts the alert, for every
\* invocation of the callback among those delivered
OnAlert(invocations) ==
    Tasks("alerts", { Message("alert", invocations[v].alert.id) :
                        v \in { v \in 1..Len(invocations) :
                                  invocations[v].callback = "on_alert" } })

\* ConnectionManager.broadcast_all: the messages of the tasks, one for each
\* argument that is given
BroadcastAll(prices, spread, correlation, summary, seq) ==
    { Message(topic, seq) :
        topic \in (IF prices # <<>> THEN {"prices"} ELSE {})
                  \cup (IF spread # <<>> THEN {"spread"} ELSE {})
                  \cup (IF correlation # <<>> THEN {"correlation"} ELSE {})
                  \cup (IF summary # <<>> THEN {"summary"} ELSE {}) }

\* the dict d, and the items of e for the keys d does not have
Merge(d, e) ==
    [k \in DOMAIN d \cup DOMAIN e |-> IF k \in DOMAIN d THEN d[k] ELSE e[k]]

\* Over with a fault: the job goes on without awaiting its calls
OverAtOnce(pubs, awaited) == TRUE

\* the await of the job returns: every call it awaits is over
Over(pubs, awaited) == \A k \in awaited : k \in DOMAIN pubs => Settled(pubs[k])

\* the calls that are over are forgotten
Forget(pubs) == [k \in { k \in DOMAIN pubs : ~Settled(pubs[k]) } |-> pubs[k]]

\* the end of an iteration: await asyncio.sleep(1)
Sleep(pubs) ==
    /\ publishes' = pubs
    /\ UNCHANGED <<lock, sent>>
    /\ job' = Sleeping(job.iteration)
    /\ now' = now + BroadcastInterval * MsPerSecond

\* the job awaits broadcast_analytics, which runs to its first suspension, or to
\* its end and into the sleep when the pool is empty
BroadcastAnalytics(j, pubs) ==
    LET message == Message("analytics", j.iteration)
    IN  \E q \in BroadcastToPool(Created("analytics", message),
                                 connections["analytics"]) :
            IF Settled(q)
            THEN /\ publishes' = pubs
                 /\ job' = Sleeping(j.iteration)
                 /\ now' = now + BroadcastInterval * MsPerSecond
                 /\ UNCHANGED <<lock, sent>>
            ELSE /\ publishes' = Put(pubs, message, Cleanup(q).pub)
                 /\ lock' = Cleanup(q).lock
                 /\ sent' = Sent(q)
                 /\ job' = [j EXCEPT !.pc = "broadcast_analytics",
                                     !.awaited = {message}]
                 /\ now' = now

\* Locals with a fault: the correlation is never taken from its analysis
LocalsWithoutCorrelation(computed, spread_data, correlation_data) ==
    [spread |-> IF computed /\ spread_data # <<>> THEN spread_data[1].spread ELSE 0,
     z_score |-> IF computed /\ spread_data # <<>> THEN spread_data[1].zScore ELSE 0,
     correlation |-> 0]

\* the locals spread, z_score and correlation of an iteration: 0.0 at first, and
\* the values of the analyses when the history has two rows and they returned
Locals(computed, spread_data, correlation_data) ==
    [spread |-> IF computed /\ spread_data # <<>> THEN spread_data[1].spread ELSE 0,
     z_score |-> IF computed /\ spread_data # <<>> THEN spread_data[1].zScore ELSE 0,
     correlation |-> IF computed /\ correlation_data # <<>>
                     THEN correlation_data[1].correlation ELSE 0]

\* one iteration of analytics_processor from the end of its sleep to its first
\* suspension: the snapshot of the latest prices, the price history, the
\* analytics, the alerts, and the start of the broadcasts
AnalyticsIteration(prices_dict, price_history, spread_data, correlation_data) ==
    LET seq == job.iteration + 1
        computed == Len(price_history) >= 2
        summary_stats ==
            IF computed
            THEN ComputeSummaryStats(price_history, spread_data, correlation_data,
                                     windowSize)
            ELSE <<>>
        r == IF summary_stats # <<>>
             THEN EvaluateSummary(AlertState, summary_stats[1], zScoreThreshold, 0)
             ELSE NoAlert(AlertState)
        alert_tasks == OnAlert(SubSeq(r.st.delivered, Len(delivered) + 1,
                                      Len(r.st.delivered)))
        messages == IF computed
                    THEN BroadcastAll(prices_dict, spread_data, correlation_data,
                                      summary_stats, seq)
                    ELSE {}
        tasks == [k \in messages |-> Created(k.type, k)]
        locals == Locals(computed, spread_data, correlation_data)
        j == [job EXCEPT
                !.iteration = seq,
                !.prices_dict = prices_dict,
                !.spread = locals.spread,
                !.z_score = locals.z_score,
                !.correlation = locals.correlation]
    IN  /\ alerts' = r.st.alerts
        /\ last_alert_time' = r.st.last_alert_time
        /\ delivered' = r.st.delivered
        /\ emitted' = r.st.emitted
        /\ reply' = AlertReply("analytics_processor", "", now,
                               [price_history |-> price_history,
                                summary |-> summary_stats,
                                spread_data |-> IF computed THEN spread_data ELSE <<>>,
                                correlation_data |-> IF computed THEN correlation_data
                                                    ELSE <<>>], r.alerts)
        /\ IF messages # {}
           THEN /\ publishes' = Merge(publishes, Merge(alert_tasks, tasks))
                /\ job' = [j EXCEPT !.pc = "broadcast_all", !.awaited = messages]
                /\ now' = now
                /\ UNCHANGED <<lock, sent>>
           ELSE IF prices_dict # <<>>
           THEN BroadcastAnalytics(j, Merge(publishes, alert_tasks))
           ELSE /\ publishes' = Merge(publishes, alert_tasks)
                /\ job' = Sleeping(seq)
                /\ now' = now + BroadcastInterval * MsPerSecond
                /\ UNCHANGED <<lock, sent>>

----------------------------------------------------------------------------
(* Tick source (app/binance_client.py).  A frame is the JSON text of a       *)
(* message, by its shape and the fields of its trade; a field that is        *)
(* missing is <<>>.  A float is a number or NaN.  A handler that has no      *)
(* suspension (_handle_message) is one step.  The symbols stay the default   *)
(* ones, so _build_stream_url does not raise.                                *)

\* BinanceClient.subscribe_to_ticks
SubscribeToTicks(callback) == tick_callbacks' = Append(tick_callbacks, callback)

\* Dispatch with a fault: the callbacks after one that raises are not invoked
DispatchUntilRaise(subscribers, tick) ==
    LET raisers == { c \in 1..Len(subscribers) : subscribers[c] \in Raising }
        upto == IF raisers = {} THEN Len(subscribers)
                ELSE CHOOSE c \in raisers : \A d \in raisers : c <= d
    IN  [c \in 1..upto |-> [callback |-> subscribers[c], tick |-> tick]]

\* the dispatch of a tick: every callback is invoked, in the order of the list;
\* what a callback raises is logged
Dispatch(subscribers, tick) ==
    [c \in 1..Len(subscribers) |-> [callback |-> subscribers[c], tick |-> tick]]

\* str.upper, for the symbols of the frames
Upper(s) == IF s = "btcusdt" THEN "BTCUSDT" ELSE s

\* float(text): the number a decimal text stands for, NaN for the text "NaN",
\* and ValueError for any other text
Float(text) ==
    CASE text = "100" -> [kind |-> "number", value |-> 100]
      [] text = "1" -> [kind |-> "number", value |-> 1]
      [] text = "0" -> [kind |-> "number", value |-> 0]
      [] text = "-5" -> [kind |-> "number", value |-> 0 - 5]
      [] text = "NaN" -> [kind |-> "nan", value |-> 0]
      [] OTHER -> [kind |-> "ValueError", value |-> 0]

\* x <= 0 for a float: every comparison with NaN is false
LessEqualZero(x) == x.kind = "number" /\ x.value <= 0

\* x > 0 for a float
GreaterThanZero(x) == x.kind = "number" /\ x.value > 0

\* dict.get(key, default) for a field of the trade
GetOr(field, default) == IF field = <<>> THEN default ELSE field[1]

\* _handle_message: the counter and the invocations of the callbacks after the
\* frame.  A frame that is dropped leaves both alone
HandleMessage(frame, count, invocations) ==
    LET drop == [message_count |-> count, dispatched |-> invocations]
        symbol == Upper(GetOr(frame.s, ""))
    IN  IF frame.json # "object" \/ ~frame.wrapped THEN drop
        ELSE IF frame.e # <<"trade">> THEN drop
        ELSE IF GetOr(frame.X, "") = "NA" THEN drop
        ELSE IF symbol \notin Symbols THEN drop
        ELSE IF frame.p = <<>> \/ frame.q = <<>> THEN drop
        ELSE LET price == Float(frame.p[1])
                 quantity == Float(frame.q[1])
                 timestamp_ms == GetOr(frame.T, 0)
             IN  IF price.kind = "ValueError" \/ quantity.kind = "ValueError" THEN drop
                 ELSE IF LessEqualZero(price) THEN drop
                 ELSE IF timestamp_ms <= 0 THEN drop
                 ELSE LET tick == [symbol |-> symbol, price |-> price,
                                   timestamp |-> timestamp_ms, qty |-> quantity]
                      IN  [message_count |-> count + 1,
                           dispatched |-> invocations \o Dispatch(tick_callbacks, tick)]

\* start() before it runs: no connection tried, no error, no frame seen
NotStarted == [pc |-> "created", delay |-> 0, connects |-> 0, errors |-> 0, frames |-> 0]

\* start() after _connect_and_listen returned: the counter is reset, and with the
\* client still running the next delay is computed and slept; else the loop ends
AfterListen(src) ==
    LET reset == 0
        attempt == reset + 1
    IN  IF is_running
        THEN /\ reconnect_attempt' = attempt
             /\ source' = [src EXCEPT !.pc = "sleeping",
                              !.delay = Min(reconnect_delay * 2 ^ (attempt - 1),
                                            max_reconnect_delay)]
        ELSE /\ reconnect_attempt' = reset
             /\ source' = [src EXCEPT !.pc = "exited", !.delay = 0]

\* start() up to the await of websockets.connect
Start ==
    /\ source.pc = "created"
    /\ is_running' = TRUE
    /\ reconnect_attempt' = 0
    /\ source' = [source EXCEPT !.pc = "connecting", !.connects = 1]
    /\ UNCHANGED <<websocket, transport, message_count, dispatched, stopper>>

\* websockets.connect succeeds: the client keeps the websocket and listens
ConnectOk ==
    /\ source.pc = "connecting"
    /\ websocket' = <<"websocket">>
    /\ transport' = "open"
    /\ source' = [source EXCEPT !.pc = "receiving", !.errors = 0]
    /\ UNCHANGED <<is_running, reconnect_attempt, message_count, dispatched, stopper>>

\* websockets.connect raises or times out: _connect_and_listen logs and returns
ConnectFail ==
    /\ source.pc = "connecting"
    /\ websocket' = <<>>
    /\ AfterListen([source EXCEPT !.errors = @ + 1])
    /\ UNCHANGED <<is_running, transport, message_count, dispatched, stopper>>

\* a frame arrives: with the client stopped the loop breaks, the websocket is
\* closed on leaving `async with`, and start() goes on; else the frame is handled
Receive(frame) ==
    /\ source.pc = "receiving" /\ transport = "open"
    /\ IF ~is_running
       THEN /\ transport' = "closed"
            /\ websocket' = <<>>
            /\ AfterListen(source)
            /\ UNCHANGED <<message_count, dispatched>>
       ELSE LET after == HandleMessage(frame, message_count, dispatched)
            IN  /\ message_count' = after.message_count
                /\ dispatched' = after.dispatched
                /\ source' = [source EXCEPT !.frames = @ + 1]
                /\ UNCHANGED <<transport, websocket, reconnect_attempt>>
    /\ UNCHANGED <<is_running, stopper>>

\* the peer closes the connection, or the transport fails
PeerClose ==
    /\ transport = "open"
    /\ transport' = "closed"
    /\ UNCHANGED <<is_running, websocket, reconnect_attempt, message_count,
                   dispatched, source, stopper>>

\* the listener finds the connection closed: _connect_and_listen returns
ListenerEnds ==
    /\ source.pc = "receiving" /\ transport = "closed"
    /\ websocket' = <<>>
    /\ AfterListen([source EXCEPT !.errors = @ + 1])
    /\ UNCHANGED <<is_running, transport, message_count, dispatched, stopper>>

\* asyncio.sleep(delay) is over: the loop tests is_running and connects again
SleepOver ==
    /\ source.pc = "sleeping"
    /\ source' = IF is_running
                 THEN [source EXCEPT !.pc = "connecting", !.delay = 0, !.connects = @ + 1]
                 ELSE [source EXCEPT !.pc = "exited", !.delay = 0]
    /\ UNCHANGED <<is_running, websocket, transport, reconnect_attempt,
                   message_count, dispatched, stopper>>

\* stop() up to the await of websocket.close(), or to its end without a websocket
StopRequest ==
    /\ stopper = "idle"
    /\ source.pc \in {"connecting", "receiving", "sleeping"}
    /\ is_running' = FALSE
    /\ stopper' = IF websocket # <<>> THEN "closing" ELSE "returned"
    /\ UNCHANGED <<websocket, transport, reconnect_attempt, message_count,
                   dispatched, source>>

\* websocket.close() is over, and stop() returns
StopClosed ==
    /\ stopper = "closing"
    /\ transport' = IF transport = "open" THEN "closed" ELSE transport
    /\ websocket' = <<>>
    /\ stopper' = "returned"
    /\ UNCHANGED <<is_running, reconnect_attempt, message_count, dispatched, source>>

----------------------------------------------------------------------------
(* Periodic loops: MinuteBarFinalizer._run (app/minute_bar_finalizer.py) and  *)
(* analytics_processor (app/main.py) as loops, with the settings the          *)
(* iterations of analytics_processor read.  A loop is at the await where it   *)
(* is suspended.  An iteration of analytics_processor is the list of the      *)
(* calls it awaits; a call that awaits nothing that suspends is passed in     *)
(* the same step as the code before it.                                       *)

\* the settings at start: ControlSettings()
DefaultSettings ==
    [selectedSymbols |-> <<"BTCUSDT", "ETHUSDT">>, windowSize |-> windowSize,
     regressionType |-> "ols", zScoreThreshold |-> zScoreThreshold]

\* a ControlSettings object that POST /api/settings receives
PostedSettings ==
    [selectedSymbols |-> <<"ETHUSDT", "BTCUSDT">>, windowSize |-> windowSize + 1,
     regressionType |-> "robust", zScoreThreshold |-> zScoreThreshold + 50]

\* update_settings: the global is bound to the object received; add_symbol of a
\* symbol that is tracked changes nothing
UpdateSettings(settings_update) == current_settings' = settings_update

\* a loop whose task was not created yet
NotRunning ==
    [pc |-> "none", iteration |-> 0, uses |-> <<>>, snapshot |-> DefaultSettings,
     errors |-> 0]

\* the calls an iteration of analytics_processor awaits, in order
Calls ==
    <<"get_latest_prices", "get_price_history", "compute_spread_analysis",
      "compute_correlation", "compute_summary_stats", "evaluate_summary_alerts",
      "broadcast_all", "broadcast_analytics", "sleep">>

\* the fields of current_settings read since the call before, up to and with
\* the arguments of the call
Reads(call) ==
    CASE call = "get_price_history" -> {"selectedSymbols"}
      [] call = "compute_spread_analysis" -> {"zScoreThreshold", "regressionType"}
      [] call = "compute_correlation" -> {"selectedSymbols"}
      [] call = "compute_summary_stats" -> {"selectedSymbols", "windowSize"}
      [] call = "evaluate_summary_alerts" -> {"zScoreThreshold"}
      [] OTHER -> {}

\* Suspends with a fault: every await gives way to the other tasks
SuspendsEverywhere(call) == TRUE

\* the awaited call gives way to the other tasks: the sends of a broadcast and
\* the sleep do; the engines take no lock that is held across an await and
\* await only their own coroutines, and the alert manager awaits its own lock
\* after the threshold was read
Suspends(call) == call \in {"broadcast_all", "broadcast_analytics", "sleep"}

\* the place in Calls of the await where the loop is: 0 between two iterations
CallIndex(pc) ==
    IF \E i \in 1..Len(Calls) - 1 : Calls[i] = pc
    THEN CHOOSE i \in 1..Len(Calls) - 1 : Calls[i] = pc
    ELSE 0

\* the next call after place i that suspends
NextSuspension(i) ==
    CHOOSE j \in (i + 1)..Len(Calls) :
        /\ Suspends(Calls[j])
        /\ \A k \in (i + 1)..(j - 1) : ~Suspends(Calls[k])

\* the reads of current_settings from after place i up to place j
UsesOf(i, j) ==
    LET keys == UNION { { <<Calls[k], field>> : field \in Reads(Calls[k]) } :
                          k \in (i + 1)..j }
    IN  [key \in keys |-> current_settings[key[2]]]

\* Except with a fault: the exception ends the loop
ExceptEnds(loop) == [loop EXCEPT !.pc = "exited", !.errors = @ + 1]

\* the except clause of a loop (`except Exception`): the exception is logged and
\* a sleep is awaited, after which the loop goes on
Except(loop) == [loop EXCEPT !.pc = "except_sleep", !.errors = @ + 1]

\* lifespan creates the task of analytics_processor
ProcessorCreate ==
    /\ processor.pc = "none"
    /\ processor' = [processor EXCEPT !.pc = "created"]

\* analytics_processor goes on from its await to the next call that suspends; at
\* the end of a sleep a new iteration begins (`while True`)
ProcessorRun ==
    /\ processor.pc \in {"created", "except_sleep"} \cup { Calls[i] : i \in 1..Len(Calls) }
    /\ LET i == CallIndex(processor.pc)
           j == NextSuspension(i)
       IN  /\ i = 0 => processor.iteration < MaxLoopIterations
           /\ processor' =
                [processor EXCEPT
                    !.pc = Calls[j],
                    !.iteration = IF i = 0 THEN @ + 1 ELSE @,
                    !.snapshot = IF i = 0 THEN current_settings ELSE @,
                    !.uses = IF i = 0 THEN UsesOf(i, j) ELSE Merge(@, UsesOf(i, j))]

\* the calls of an iteration that raise: broadcast_analytics, when the pool of
\* the topic changed its size during the fan-out
FailingCalls == {"broadcast_analytics"}

\* the call analytics_processor awaits raises an exception
ProcessorRaise ==
    /\ processor.pc \in FailingCalls
    /\ processor' = Except(processor)

\* lifespan at shutdown cancels the task: CancelledError is raised at the await
\* and is not an Exception, so the loop ends
ProcessorCancel ==
    /\ processor.pc \notin {"none", "cancelled"}
    /\ processor' = [processor EXCEPT !.pc = "cancelled"]

\* MinuteBarFinalizer.start
FinalizerStart ==
    /\ finalizer.pc = "none"
    /\ running' = TRUE
    /\ finalizer' = [finalizer EXCEPT !.pc = "created"]

\* MinuteBarFinalizer.stop
FinalizerStop ==
    /\ finalizer.pc # "none" /\ running
    /\ running' = FALSE
    /\ UNCHANGED finalizer

\* _run at the test of `while self.running`, at its start or after a sleep
AtLoopTest(loop) == loop.pc \in {"created", "sleep", "except_sleep"}

\* LoopTest with a fault: the loop of _run is `while True`
LoopTestTrue(flag) == TRUE

\* the test of the loop of _run: `while self.running`
LoopTest(flag) == flag

\* _run leaves its loop: the flag is false at the test
FinalizerExit ==
    /\ AtLoopTest(finalizer) /\ ~LoopTest(running)
    /\ finalizer' = [finalizer EXCEPT !.pc = "exited"]
    /\ UNCHANGED running

\* an iteration of _run at the wall clock w, up to its sleep: the sweep, or an
\* exception of the sweep
FinalizerIteration(w, raises) ==
    /\ AtLoopTest(finalizer) /\ LoopTest(running)
    /\ IF raises
       THEN /\ finalizer' = Except([finalizer EXCEPT !.iteration = @ + 1])
            /\ UNCHANGED barVars
       ELSE /\ finalizer' = [finalizer EXCEPT !.pc = "sleep", !.iteration = @ + 1]
            /\ CheckAndFinalize(w)
    /\ UNCHANGED running

----------------------------------------------------------------------------
(* Specifications *)

Op(op, sym, t, p, q) == [op |-> op, sym |-> sym, time |-> t, price |-> p, qty |-> q]

\* a call of a query on the symbols syms, and what it returned
Reply(op, syms, interval, n, result) ==
    [op |-> op, symbols |-> syms, interval |-> interval, n |-> n, result |-> result]

NoReply == Reply("none", <<>>, "", 0, <<>>)

Init ==
    /\ ticks = <<>>
    /\ last_tick = <<>>
    /\ tick_count = <<>>
    /\ second_bars = <<>>
    /\ minute_bars = <<>>
    /\ current_second_bar = <<>>
    /\ current_minute_bar = <<>>
    /\ now = 0
    /\ archived = [I \in Intervals |-> [s \in Symbols |-> <<>>]]
    /\ reply = NoReply
    /\ alerts = <<>>
    /\ last_alert_time = <<>>
    /\ alert_callbacks = <<>>
    /\ delivered = <<>>
    /\ emitted = <<>>
    /\ calls = 0
    /\ connections = [t \in Topics |-> {}]
    /\ all_connections = <<>>
    /\ lock = <<>>
    /\ closed = {}
    /\ publishes = <<>>
    /\ sent = <<>>
    /\ job = Sleeping(0)
    /\ is_running = FALSE
    /\ websocket = <<>>
    /\ reconnect_attempt = 0
    /\ message_count = 0
    /\ source = NotStarted
    /\ stopper = "idle"
    /\ transport = "none"
    /\ dispatched = <<>>
    /\ tick_callbacks = <<>>
    /\ running = FALSE
    /\ finalizer = NotRunning
    /\ processor = NotRunning
    /\ current_settings = DefaultSettings
    /\ ingested = [s \in Symbols |-> <<>>]
    /\ folds = 0
    /\ sweeps = 0
    /\ prev_time = [s \in Symbols |-> 0]
    /\ last = Op("init", "", 0, 0, 0)

\* one tick through process_ticks, drawn from the given sets
FoldFrom(syms, times, prices, qtys) ==
    /\ folds < MaxFolds
    /\ folds' = folds + 1
    /\ \E sym \in syms, t \in times, p \in prices, q \in qtys :
          /\ ProcessTick(sym, t, p, q)
          /\ last' = Op("tick", sym, t, p, q)
    /\ UNCHANGED <<netVars, bufferVars, ingested, sweeps, prev_time, restVars>>

\* one iteration of MinuteBarFinalizer._run at some wall clock
Sweep ==
    /\ sweeps < MaxSweeps
    /\ sweeps' = sweeps + 1
    /\ \E w \in ClockTimes :
          /\ CheckAndFinalize(w)
          /\ last' = Op("sweep", "", w, 0, 0)
    /\ UNCHANGED <<netVars, bufferVars, ingested, folds, prev_time, restVars>>

(* Spec: the resampler and the finalizer on one symbol, fed ticks of any      *)
(* trade-time in any order, swept at any wall clock.                          *)

Fold == FoldFrom({"BTCUSDT"}, TickTimes, Prices, {1})

Next == Fold \/ Sweep

Spec == Init /\ [][Next]_vars

(* SpecMono: as Spec, the trade-times of a symbol never decreasing; any       *)
(* quantity.                                                                  *)

FoldMono ==
    /\ folds < MaxFolds
    /\ folds' = folds + 1
    /\ \E sym \in {"BTCUSDT"}, t \in TickTimes, p \in Prices, q \in Qtys :
          /\ t >= prev_time[sym]
          /\ ProcessTick(sym, t, p, q)
          /\ prev_time' = [prev_time EXCEPT ![sym] = t]
          /\ last' = Op("tick", sym, t, p, q)
    /\ UNCHANGED <<netVars, bufferVars, ingested, sweeps, restVars>>

NextMono == FoldMono \/ Sweep

SpecMono == Init /\ [][NextMono]_vars

(* SpecPair: two symbols, one trade-time a minute, one price, any quantity.   *)

FoldPair == FoldFrom(Symbols, { At(m, 10, 0) : m \in Minutes }, {1}, Qtys)

NextPair == FoldPair \/ Sweep

SpecPair == Init /\ [][NextPair]_vars

(* SpecIngest: the ingestion engine fed ticks of two symbols.                 *)

Ingest ==
    /\ Len(ingested["BTCUSDT"]) + Len(ingested["ETHUSDT"]) < MaxIngests
    /\ \E sym \in Symbols, t \in {At(0, 10, 0), At(0, 59, 500)}, p \in Prices :
          /\ IngestTick(Tick(sym, t, p, 1))
          /\ ingested' = [ingested EXCEPT ![sym] = Append(@, Tick(sym, t, p, 1))]
          /\ last' = Op("ingest", sym, t, p, 1)
    /\ UNCHANGED <<netVars, barVars, folds, sweeps, prev_time, restVars>>

SpecIngest == Init /\ [][Ingest]_vars

(* SpecCap: the resampler and the finalizer on one symbol, with the record of  *)
(* every bar appended to a stored list: at resampling.py:91 (1s), at           *)
(* resampling.py:133 (1m) and at minute_bar_finalizer.py:89.                   *)

HasBucket(bar_list, start) == \E i \in 1..Len(bar_list) : bar_list[i].timestamp = start

\* archived with the bar appended to the record of interval I and symbol sym
Record(arch, I, sym, bar) == [arch EXCEPT ![I][sym] = Append(@, bar)]

\* the record after the fold of a tick of trade-time t
RecordFold(sym, t) ==
    LET a1 == IF /\ sym \in DOMAIN current_second_bar
                 /\ current_second_bar[sym].timestamp # FloorSecond(t)
                 /\ ~HasBucket(Stored(second_bars, sym),
                               current_second_bar[sym].timestamp)
              THEN Record(archived, "1s", sym, current_second_bar[sym])
              ELSE archived
    IN  IF /\ sym \in DOMAIN current_minute_bar
           /\ current_minute_bar[sym].timestamp < FloorMinute(t)
           /\ ~HasBucket(Stored(minute_bars, sym), current_minute_bar[sym].timestamp)
        THEN Record(a1, "1m", sym, current_minute_bar[sym])
        ELSE a1

\* the record after a sweep at wall clock w
RecordSweep(w) ==
    [I \in Intervals |-> [sym \in Symbols |->
        IF /\ I = "1m"
           /\ sym \in DOMAIN current_minute_bar
           /\ ShouldFinalize(current_minute_bar[sym], w)
           /\ ~HasBucket(Stored(minute_bars, sym), current_minute_bar[sym].timestamp)
        THEN Append(archived[I][sym], current_minute_bar[sym])
        ELSE archived[I][sym]]]

CapFold ==
    /\ folds < MaxCapFolds
    /\ folds' = folds + 1
    /\ \E t \in TickTimes :
          /\ ProcessTick("BTCUSDT", t, 1, 1)
          /\ archived' = RecordFold("BTCUSDT", t)
          /\ last' = Op("tick", "BTCUSDT", t, 1, 1)
    /\ UNCHANGED <<netVars, bufferVars, ingested, sweeps, prev_time, now, reply, alertVars>>

CapSweep ==
    /\ sweeps < MaxSweeps
    /\ sweeps' = sweeps + 1
    /\ \E w \in ClockTimes :
          /\ CheckAndFinalize(w)
          /\ archived' = RecordSweep(w)
          /\ last' = Op("sweep", "", w, 0, 0)
    /\ UNCHANGED <<netVars, bufferVars, ingested, folds, prev_time, now, reply, alertVars>>

NextCap == CapFold \/ CapSweep

SpecCap == Init /\ [][NextCap]_vars

(* SpecBars: the resampler and the finalizer on one symbol, fed ticks in any   *)
(* order, and get_bars called at any moment.  The k-th tick has price k, so    *)
(* that no two bars are equal.  get_bars writes nothing but its log            *)
(* bookkeeping (_last_logged_count), which is not modelled.                    *)

BarsFold ==
    /\ folds < MaxQueryFolds
    /\ folds' = folds + 1
    /\ \E t \in { At(m, 10, 0) : m \in Minutes }, p \in {folds + 1} :
          /\ ProcessTick("BTCUSDT", t, p, 1)
          /\ last' = Op("tick", "BTCUSDT", t, p, 1)
    /\ reply' = NoReply
    /\ UNCHANGED <<netVars, bufferVars, ingested, sweeps, prev_time, now, archived, alertVars>>

BarsSweep ==
    /\ sweeps < MaxSweeps
    /\ sweeps' = sweeps + 1
    /\ \E w \in ClockTimes :
          /\ CheckAndFinalize(w)
          /\ last' = Op("sweep", "", w, 0, 0)
    /\ reply' = NoReply
    /\ UNCHANGED <<netVars, bufferVars, ingested, folds, prev_time, now, archived, alertVars>>

\* a call of get_bars(sym, interval, n)
GetBarsCall ==
    /\ \E sym \in Symbols, interval \in Intervals, n \in 0..MaxN :
          reply' = Reply("get_bars", <<sym>>, interval, n, GetBars(sym, interval, n))
    /\ UNCHANGED <<netVars, bufferVars, barVars, historyVars, now, archived, alertVars>>

NextBars == BarsFold \/ BarsSweep \/ GetBarsCall

SpecBars == Init /\ [][NextBars]_vars

(* SpecHistory: the resampler fed ticks of two symbols in any order, the k-th  *)
(* tick of price k, and get_price_history called at any moment.               *)

SymbolLists == { <<"BTCUSDT">>, <<"BTCUSDT", "ETHUSDT">>, <<"ETHUSDT", "BTCUSDT">> }

HistoryFold ==
    /\ folds < MaxQueryFolds
    /\ folds' = folds + 1
    /\ \E sym \in Symbols, t \in { At(m, 10, 0) : m \in Minutes }, p \in {folds + 1} :
          /\ ProcessTick(sym, t, p, 1)
          /\ last' = Op("tick", sym, t, p, 1)
    /\ reply' = NoReply
    /\ UNCHANGED <<netVars, bufferVars, ingested, sweeps, prev_time, now, archived, alertVars>>

\* a call of get_price_history(symbols, interval, n)
PriceHistoryCall ==
    /\ \E symbols \in SymbolLists, interval \in Intervals, n \in 0..MaxN :
          reply' = Reply("price_history", symbols, interval, n,
                         PriceHistory(symbols, interval, n))
    /\ UNCHANGED <<netVars, bufferVars, barVars, historyVars, now, archived, alertVars>>

NextHistory == HistoryFold \/ PriceHistoryCall

SpecHistory == Init /\ [][NextHistory]_vars

(* SpecAlerts: the alert manager under calls of create_alert with two keys, a  *)
(* callback subscribed at some moment, and a wall clock that advances between  *)
(* the calls and, by at most a millisecond, within a call.                     *)

\* the instants the wall clock passes through, in ms
AlertTimes == {30000, 60000, 61000, 121001}

Drift == {0, 1}

\* the arguments of create_alert: two keys that differ in the symbol
AlertArgs ==
    { [type |-> "warning", title |-> "Low Correlation Detected", symbol |-> sym,
       value |-> 0, metric |-> "correlation", threshold |-> 50,
       direction |-> "below"] : sym \in {"None", "BTCUSDT"} }

\* AlertManager.subscribe
Subscribe ==
    /\ Len(alert_callbacks) < MaxSubscribers
    /\ alert_callbacks' = Append(alert_callbacks, "on_alert")
    /\ reply' = AlertReply("subscribe", "", now, <<>>, <<>>)
    /\ UNCHANGED <<netVars, bufferVars, barVars, historyVars, now, archived,
                   alerts, last_alert_time, delivered, emitted, calls>>

\* a call of create_alert
CreateAlertCall ==
    /\ calls < MaxCalls
    /\ calls' = calls + 1
    /\ \E a \in AlertArgs, d \in Drift :
          LET r == CreateAlert(AlertState, a, d)
          IN  /\ SetAlertState(r.st)
              /\ reply' = AlertReply("create_alert", AlertKey(a.type, a.title, a.symbol),
                                     now, a, r.alerts)
    /\ UNCHANGED <<netVars, bufferVars, barVars, historyVars, archived>>

\* the wall clock moves on to a later instant
AlertClock ==
    /\ \E t \in AlertTimes : t > now /\ now' = t
    /\ reply' = NoReply
    /\ UNCHANGED <<netVars, bufferVars, barVars, historyVars, archived, alertVars>>

NextAlerts == Subscribe \/ CreateAlertCall \/ AlertClock

SpecAlerts == Init /\ [][NextAlerts]_vars

(* SpecRules: the alert rules under calls of evaluate_summary_alerts (the       *)
(* orchestrator, main.py:122) and of evaluate_zscore_alert                     *)
(* (test_alert_trigger.py:51), the wall clock advancing between the calls.     *)

ZScores == {-260, 180, 200, 260}
Correlations == {-60, 49, 50}
Volatilities == {0, MaxVolatility + 1}
Thresholds == {200, 250}

Summary(z, rho, vol, threshold) ==
    [zScore |-> z, correlation |-> rho, rollingVolatility |-> vol,
     threshold |-> threshold]

EvaluateSummaryCall ==
    /\ calls < MaxRuleCalls
    /\ calls' = calls + 1
    /\ \E z \in ZScores, rho \in Correlations, vol \in Volatilities,
          threshold \in Thresholds :
          LET r == EvaluateSummary(AlertState, Summary(z, rho, vol, threshold),
                                   threshold, 0)
          IN  /\ SetAlertState(r.st)
              /\ reply' = AlertReply("evaluate_summary", "", now,
                                     Summary(z, rho, vol, threshold), r.alerts)
    /\ UNCHANGED <<netVars, bufferVars, barVars, historyVars, archived>>

EvaluateZscoreCall ==
    /\ calls < MaxRuleCalls
    /\ calls' = calls + 1
    /\ \E z \in ZScores, threshold \in Thresholds :
          LET r == EvaluateZscore(AlertState, z, threshold, 0)
          IN  /\ SetAlertState(r.st)
              /\ reply' = AlertReply("evaluate_zscore", "", now,
                                     Summary(z, 0, 0, threshold), r.alerts)
    /\ UNCHANGED <<netVars, bufferVars, barVars, historyVars, archived>>

NextRules == EvaluateSummaryCall \/ EvaluateZscoreCall \/ AlertClock

SpecRules == Init /\ [][NextRules]_vars

(* SpecNotify: the alert manager with up to MaxCallbacks subscriber callbacks,  *)
(* some of which raise, under calls of create_alert and of get_active_alerts   *)
(* (GET /api/alerts, main.py:346).                                             *)

Callbacks == {"on_alert", "raising"}

\* the limits of a query: none given, or an integer
Limits == {<<>>} \cup { <<k>> : k \in 0..MaxLimit }

\* AlertManager.subscribe with any callback
SubscribeCallback ==
    /\ Len(alert_callbacks) < MaxCallbacks
    /\ \E c \in Callbacks : alert_callbacks' = Append(alert_callbacks, c)
    /\ reply' = AlertReply("subscribe", "", now, <<>>, <<>>)
    /\ UNCHANGED <<netVars, bufferVars, barVars, historyVars, now, archived,
                   alerts, last_alert_time, delivered, emitted, calls>>

\* a call of create_alert
NotifyCreateCall ==
    /\ calls < MaxNotifyCalls
    /\ calls' = calls + 1
    /\ \E a \in AlertArgs :
          LET r == CreateAlert(AlertState, a, 0)
          IN  /\ SetAlertState(r.st)
              /\ reply' = AlertReply("create_alert", AlertKey(a.type, a.title, a.symbol),
                                     now, a, r.alerts)
    /\ UNCHANGED <<netVars, bufferVars, barVars, historyVars, archived>>

\* a call of get_active_alerts
GetActiveAlertsCall ==
    /\ \E limit \in Limits :
          reply' = AlertReply("get_active_alerts", "", now, limit,
                              GetActiveAlerts(alerts, limit))
    /\ UNCHANGED <<netVars, bufferVars, barVars, historyVars, now, archived, alertVars>>

NextNotify == SubscribeCallback \/ NotifyCreateCall \/ GetActiveAlertsCall \/ AlertClock

SpecNotify == Init /\ [][NextNotify]_vars

(* SpecJob: the periodic job of the orchestrator publishing to the broadcast    *)
(* fabric, while websockets are accepted on two of the topics, lose their peer *)
(* and are disconnected by their endpoints.  on_alert is subscribed by         *)
(* lifespan before the job starts (main.py:224-240).  Websockets are numbered  *)
(* in the order of their acceptance.                                           *)

Sockets == {1, 2}
StreamTypes == {"prices", "analytics"}

\* get_latest_prices of the selected symbols: no tick yet, or a price for each
LatestPrices == {<<>>, [s \in Symbols |-> 1000]}

\* the rows asked of get_price_history (n=60 in the code): enough for every window
HistoryN == Max(Max(ROLLING_WINDOW, CORRELATION_WINDOW), windowSize)

Alternating(n) == [k \in 1..n |-> IF k % 2 = 1 THEN 2000 ELSE 1000]

\* the rows get_price_history returns when the base symbol closed at closes
HistoryOf(closes) ==
    [k \in 1..Len(closes) |->
        DictRow([key \in {"timestamp"} \cup Symbols |->
                    IF key = "timestamp" THEN k * MsPerSecond
                    ELSE IF key = BASE_SYMBOL THEN closes[k] ELSE 100])]

\* closes that do not move
Flat(n) == [k \in 1..n |-> 1000]

Histories ==
    { HistoryOf(Alternating(n)) : n \in {0, 2, HistoryN} } \cup {HistoryOf(Flat(HistoryN))}

JobStart ==
    /\ job.pc = "sleeping" /\ job.iteration < MaxIterations
    /\ \E c \in 1..Len(alert_callbacks) : alert_callbacks[c] = "on_alert"
    /\ \E prices_dict \in LatestPrices, price_history \in Histories :
          /\ price_history # <<>> => prices_dict # <<>>
          /\ \E spread_data \in SpreadOutcomes(price_history),
                correlation_data \in CorrelationOutcomes(price_history) :
                AnalyticsIteration(prices_dict, price_history, spread_data,
                                   correlation_data)
    /\ UNCHANGED <<bufferVars, barVars, historyVars, archived, alert_callbacks, calls,
                   connections, all_connections, closed, sourceVars,
                   loopVars>>

\* asyncio.gather of broadcast_all is over: the combined broadcast, if any
JobGather ==
    /\ job.pc = "broadcast_all"
    /\ Over(publishes, job.awaited)
    /\ IF job.prices_dict # <<>>
       THEN BroadcastAnalytics(job, Forget(publishes))
       ELSE Sleep(Forget(publishes))
    /\ reply' = NoReply
    /\ UNCHANGED <<bufferVars, barVars, historyVars, archived, alertVars,
                   connections, all_connections, closed, sourceVars,
                   loopVars>>

\* broadcast_analytics is over, by return or by an exception that the loop logs
JobFinish ==
    /\ job.pc = "broadcast_analytics"
    /\ Over(publishes, job.awaited)
    /\ Sleep(Forget(publishes))
    /\ reply' = NoReply
    /\ UNCHANGED <<bufferVars, barVars, historyVars, archived, alertVars,
                   connections, all_connections, closed, sourceVars,
                   loopVars>>

\* the place of a topic among the tasks broadcast_all gathers
\* (ConnectionManager.broadcast_all)
GatherPlace(topic) ==
    CASE topic = "prices" -> 1 [] topic = "spread" -> 2
      [] topic = "correlation" -> 3 [] topic = "summary" -> 4 [] OTHER -> 5

\* the task of the message a was created before the task of b: the tasks of the
\* alerts in the order of their emission (the ids of the model count the
\* alerts), and after them the tasks of broadcast_all in the order of its list
CreatedBefore(a, b) ==
    IF a.type = "alert" THEN b.type # "alert" \/ a.seq < b.seq
    ELSE /\ b.type # "alert"
         /\ \/ a.seq < b.seq
            \/ a.seq = b.seq /\ GatherPlace(a.type) < GatherPlace(b.type)

\* the tasks that have not run yet
NotRun == { k \in DOMAIN publishes : publishes[k].pc = "created" }

\* the tasks a step of the job created start back to back, in the order of
\* their creation, before anything that became ready after the step: the ready
\* queue of the event loop is first-in first-out.  The step that creates tasks
\* does not touch the fabric, so what was ready before them is taken before it
Started == NotRun = {}

\* a websocket endpoint accepts a websocket of one of the stream types
AcceptOf(stream_types) ==
    /\ Started
    /\ \E ws \in Sockets, stream_type \in stream_types :
          /\ \A earlier \in Sockets : earlier < ws => earlier \in DOMAIN sent
          /\ Connect(ws, stream_type)
    /\ reply' = NoReply
    /\ UNCHANGED <<bufferVars, barVars, historyVars, now, archived, alertVars, job, sourceVars,
                   loopVars>>

Accept == AcceptOf(StreamTypes)

Lose ==
    /\ Started
    /\ \E ws \in Sockets : PeerCloses(ws)
    /\ reply' = NoReply
    /\ UNCHANGED <<bufferVars, barVars, historyVars, now, archived, alertVars, job, sourceVars,
                   loopVars>>

Leave ==
    /\ Started
    /\ \E ws \in Sockets : Disconnect(ws)
    /\ reply' = NoReply
    /\ UNCHANGED <<bufferVars, barVars, historyVars, now, archived, alertVars, job, sourceVars,
                   loopVars>>

\* the event loop starts the tasks in the order of their creation
Run ==
    /\ NotRun # {}
    /\ PublishRun(CHOOSE k \in NotRun : \A j \in NotRun \ {k} : CreatedBefore(k, j),
                  job.awaited)
    /\ reply' = NoReply
    /\ UNCHANGED <<bufferVars, barVars, historyVars, now, archived, alertVars, job, sourceVars,
                   loopVars>>

Resume ==
    /\ Started
    /\ \E k \in DOMAIN publishes : PublishResume(k, job.awaited)
    /\ reply' = NoReply
    /\ UNCHANGED <<bufferVars, barVars, historyVars, now, archived, alertVars, job, sourceVars,
                   loopVars>>

NextJob ==
    \/ Subscribe \/ JobStart \/ JobGather \/ JobFinish
    \/ Accept \/ Lose \/ Leave \/ Run \/ Resume

SpecJob == Init /\ [][NextJob]_vars

\* the event loop runs every task that is ready: a call that can go on does, and
\* so does the job when its await returns
SpecJobFair ==
    SpecJob /\ WF_vars(Run) /\ WF_vars(Resume) /\ WF_vars(JobGather) /\ WF_vars(JobFinish)

(* SpecAlertTopic: as SpecJob, the websockets accepted on the topic alerts.   *)
(* Nobody subscribes to the other topics, so the broadcasts of the job are    *)
(* over when they are called.                                                 *)

AcceptAlerts == AcceptOf({"alerts"})

NextAlertTopic ==
    \/ Subscribe \/ JobStart \/ JobGather
    \/ AcceptAlerts \/ Lose \/ Leave \/ Run \/ Resume

SpecAlertTopic == Init /\ [][NextAlertTopic]_vars

(* SpecTicks: the tick pipeline of tick_processor.  handle_tick is the one     *)
(* subscriber of the tick source; every tick it is handed becomes a task of   *)
(* _process_tick.  The k-th tick has price k.  The tasks that have run are    *)
(* counted by folds, and dispatched is the queue of the tasks.                *)

\* the task that runs next, done of the tasks of the queue having run: what
\* the event loop ran in the newest-first order would pick
NewestTask(queue, done) == Len(queue)

\* the task that runs next: create_task puts a task at the end of the ready
\* queue of the event loop, which runs the tasks first-in first-out
NextTask(queue, done) == done + 1

\* the tick source hands a tick to handle_tick, which creates the task
TickArrives ==
    /\ Len(dispatched) < MaxTickTasks
    /\ \E sym \in Symbols, t \in {At(0, 10, 0), At(0, 11, 0)} :
          dispatched' = dispatched
                          \o Dispatch(<<"handle_tick">>,
                                      Tick(sym, t, Len(dispatched) + 1, 1))
    /\ UNCHANGED <<bufferVars, barVars, historyVars, restVars, fabricVars, job, loopVars,
                   is_running, websocket, reconnect_attempt, message_count, source,
                   stopper, transport, tick_callbacks>>

\* a task of _process_tick runs: ingest_tick, then process_ticks.  No holder of
\* the lock of a tick buffer awaits while it holds it (ingestion.py:44-95), so
\* the lock is free whenever a task runs, and the resampler awaits nothing that
\* suspends: the task runs from its start to its end in one step
ProcessTickTask ==
    /\ folds < Len(dispatched)
    /\ LET tick == dispatched[NextTask(dispatched, folds)].tick
       IN  /\ IngestTick(tick)
           /\ ingested' = [ingested EXCEPT ![tick.symbol] = Append(@, tick)]
           /\ ProcessTick(tick.symbol, tick.timestamp, tick.price, tick.qty)
           /\ last' = Op("tick", tick.symbol, tick.timestamp, tick.price, tick.qty)
    /\ folds' = folds + 1
    /\ UNCHANGED <<sweeps, prev_time, restVars, netVars>>

NextTicks == TickArrives \/ ProcessTickTask

SpecTicks == Init /\ [][NextTicks]_vars

(* SpecLoops: the two periodic loops from the creation of their tasks, the    *)
(* finalizer stopped at any moment, the task of analytics_processor cancelled *)
(* at any moment, and the settings replaced at any moment by POST             *)
(* /api/settings.  No tick is folded, so the sweeps find no bar.              *)

\* the variables the loops leave alone
aside == <<bufferVars, ingested, folds, prev_time, restVars, fabricVars, job, sourceVars>>

LoopCreate ==
    /\ ProcessorCreate
    /\ UNCHANGED <<aside, barVars, sweeps, last, running, finalizer, current_settings>>

LoopRun ==
    /\ ProcessorRun
    /\ UNCHANGED <<aside, barVars, sweeps, last, running, finalizer, current_settings>>

LoopRaise ==
    /\ ProcessorRaise
    /\ UNCHANGED <<aside, barVars, sweeps, last, running, finalizer, current_settings>>

LoopCancel ==
    /\ ProcessorCancel
    /\ UNCHANGED <<aside, barVars, sweeps, last, running, finalizer, current_settings>>

LoopSettings ==
    /\ \E settings_update \in {DefaultSettings, PostedSettings} :
          /\ settings_update # current_settings
          /\ UpdateSettings(settings_update)
    /\ UNCHANGED <<aside, barVars, sweeps, last, running, finalizer, processor>>

LoopFinalizerStart ==
    /\ FinalizerStart
    /\ UNCHANGED <<aside, barVars, sweeps, last, processor, current_settings>>

LoopFinalizerStop ==
    /\ FinalizerStop
    /\ UNCHANGED <<aside, barVars, sweeps, last, processor, current_settings>>

LoopFinalizerExit ==
    /\ FinalizerExit
    /\ UNCHANGED <<aside, barVars, sweeps, last, processor, current_settings>>

LoopSweep ==
    /\ sweeps < MaxSweeps
    /\ sweeps' = sweeps + 1
    /\ \E w \in ClockTimes, raises \in BOOLEAN :
          /\ FinalizerIteration(w, raises)
          /\ last' = Op("sweep", "", w, 0, 0)
    /\ UNCHANGED <<aside, processor, current_settings>>

NextLoops ==
    \/ LoopCreate \/ LoopRun \/ LoopRaise \/ LoopCancel \/ LoopSettings
    \/ LoopFinalizerStart \/ LoopFinalizerStop \/ LoopFinalizerExit \/ LoopSweep

SpecLoops == Init /\ [][NextLoops]_vars

(* SpecSource: the tick source connecting, receiving frames, losing its      *)
(* connection, backing off, and being stopped.                               *)

\* the frames the peer sends: a trade of a tracked symbol, and the frames that
\* differ from it in one respect
Trade ==
    [json |-> "object", wrapped |-> TRUE, e |-> <<"trade">>, X |-> <<"MARKET">>,
     s |-> <<"BTCUSDT">>, p |-> <<"100">>, q |-> <<"1">>, T |-> <<1000>>]

Frames ==
    {Trade, [Trade EXCEPT !.json = "invalid"], [Trade EXCEPT !.wrapped = FALSE]}
    \cup { [Trade EXCEPT !.e = v] : v \in {<<>>, <<"aggTrade">>} }
    \cup { [Trade EXCEPT !.X = v] : v \in {<<>>, <<"NA">>} }
    \cup { [Trade EXCEPT !.s = v] : v \in {<<>>, <<"btcusdt">>, <<"DOGEUSDT">>} }
    \cup { [Trade EXCEPT !.p = v] : v \in {<<>>, <<"0">>, <<"-5">>, <<"NaN">>, <<"abc">>} }
    \cup { [Trade EXCEPT !.q = v] : v \in {<<>>, <<"0">>, <<"abc">>} }
    \cup { [Trade EXCEPT !.T = v] : v \in {<<>>, <<0>>, <<0 - 1>>, <<2000>>} }

\* the callbacks that subscribe: handle_tick of tick_processor (main.py:182), and
\* one that raises
TickCallbacks == {"handle_tick", "raising"}

SourceSubscribe ==
    /\ Len(tick_callbacks) < MaxTickCallbacks
    /\ \E callback \in TickCallbacks : SubscribeToTicks(callback)
    /\ reply' = NoReply
    /\ UNCHANGED <<bufferVars, barVars, historyVars, now, archived, alertVars,
                   fabricVars, job, loopVars, is_running, websocket, reconnect_attempt,
                   message_count, source, stopper, transport, dispatched>>

SourceStart ==
    /\ Start
    /\ reply' = NoReply
    /\ UNCHANGED <<bufferVars, barVars, historyVars, now, archived, alertVars,
                   fabricVars, job, loopVars, tick_callbacks>>

SourceConnectOk ==
    /\ ConnectOk
    /\ reply' = NoReply
    /\ UNCHANGED <<bufferVars, barVars, historyVars, now, archived, alertVars,
                   fabricVars, job, loopVars, tick_callbacks>>

SourceConnectFail ==
    /\ ConnectFail
    /\ reply' = NoReply
    /\ UNCHANGED <<bufferVars, barVars, historyVars, now, archived, alertVars,
                   fabricVars, job, loopVars, tick_callbacks>>

SourceReceive ==
    /\ ~is_running \/ source.frames < MaxFrames
    /\ \E frame \in Frames :
          /\ Receive(frame)
          /\ reply' = AlertReply("_handle_message", "", 0, frame,
                                 SubSeq(dispatched', Len(dispatched) + 1,
                                        Len(dispatched')))
    /\ UNCHANGED <<bufferVars, barVars, historyVars, now, archived, alertVars,
                   fabricVars, job, loopVars, tick_callbacks>>

SourcePeerClose ==
    /\ PeerClose
    /\ reply' = NoReply
    /\ UNCHANGED <<bufferVars, barVars, historyVars, now, archived, alertVars,
                   fabricVars, job, loopVars, tick_callbacks>>

SourceListenerEnds ==
    /\ ListenerEnds
    /\ reply' = NoReply
    /\ UNCHANGED <<bufferVars, barVars, historyVars, now, archived, alertVars,
                   fabricVars, job, loopVars, tick_callbacks>>

SourceSleepOver ==
    /\ ~is_running \/ source.connects < MaxConnects
    /\ SleepOver
    /\ reply' = NoReply
    /\ UNCHANGED <<bufferVars, barVars, historyVars, now, archived, alertVars,
                   fabricVars, job, loopVars, tick_callbacks>>

SourceStopRequest ==
    /\ StopRequest
    /\ reply' = NoReply
    /\ UNCHANGED <<bufferVars, barVars, historyVars, now, archived, alertVars,
                   fabricVars, job, loopVars, tick_callbacks>>

SourceStopClosed ==
    /\ StopClosed
    /\ reply' = NoReply
    /\ UNCHANGED <<bufferVars, barVars, historyVars, now, archived, alertVars,
                   fabricVars, job, loopVars, tick_callbacks>>

NextSource ==
    \/ SourceSubscribe \/ SourceStart \/ SourceConnectOk \/ SourceConnectFail \/ SourceReceive
    \/ SourcePeerClose \/ SourceListenerEnds \/ SourceSleepOver
    \/ SourceStopRequest \/ SourceStopClosed

SpecSource == Init /\ [][NextSource]_vars

\* the event loop runs every task that is ready and every timer expires: a
\* connection attempt ends (open_timeout), a sleep ends, a close handshake ends
\* (close_timeout) and a listener on a closed connection returns.  Nothing makes
\* the peer send a frame or close
SpecSourceFair ==
    /\ SpecSource
    /\ WF_vars(SourceConnectOk \/ SourceConnectFail)
    /\ WF_vars(SourceListenerEnds)
    /\ WF_vars(SourceSleepOver)
    /\ WF_vars(SourceStopClosed)

(* SpecLive: the resampler and the finalizer under a wall clock that advances. *)
(* The finalizer loop (_run: sweep, sleep check_interval, again, for as long   *)
(* as it is running) sweeps again and again, each sweep reading the clock;     *)
(* the upstream sends a bounded number of ticks and is silent afterwards.      *)

\* the instants the wall clock passes through: inside and past the grace period
\* of the minutes 1..3
WallTimes == { At(m, GraceSeconds, 750) : m \in 1..3 }
             \cup { At(m, GraceSeconds + 1, 250) : m \in 1..3 }

LiveFold ==
    /\ folds < MaxLiveFolds
    /\ folds' = folds + 1
    /\ \E t \in { At(m, 10, 0) : m \in Minutes }, p \in Prices :
          /\ ProcessTick("BTCUSDT", t, p, 1)
          /\ last' = Op("tick", "BTCUSDT", t, p, 1)
    /\ UNCHANGED <<netVars, bufferVars, ingested, sweeps, prev_time, restVars>>

\* the wall clock moves on to a later instant
Advance ==
    /\ \E w \in WallTimes :
          /\ w > now
          /\ now' = w
          /\ last' = Op("clock", "", w, 0, 0)
    /\ UNCHANGED <<netVars, bufferVars, barVars, ingested, folds, sweeps, prev_time, archived, reply, alertVars>>

\* one iteration of MinuteBarFinalizer._run, reading the wall clock
LiveSweep ==
    /\ CheckAndFinalize(now)
    /\ last' = Op("sweep", "", now, 0, 0)
    /\ UNCHANGED <<netVars, bufferVars, ingested, folds, sweeps, prev_time, restVars>>

NextLive == LiveFold \/ Advance \/ LiveSweep

SpecLive == Init /\ [][NextLive]_vars /\ WF_vars(Advance) /\ WF_vars(LiveSweep)

----------------------------------------------------------------------------
(* Vocabulary of the properties *)

\* new is old with the bar appended, after the eviction of some oldest bars
AppendedTo(old, new, bar) ==
    \E k \in 0..Len(old) : new = Append(SubSeq(old, k + 1, Len(old)), bar)

StrictlyIncreasing(bar_list) ==
    \A i, j \in 1..Len(bar_list) : i < j => bar_list[i].timestamp < bar_list[j].timestamp

OHLCV(b) ==
    /\ b.low <= b.open /\ b.open <= b.high
    /\ b.low <= b.close /\ b.close <= b.high
    /\ b.volume >= 0

AllBars(sym) ==
    { Stored(second_bars, sym)[i] : i \in 1..Len(Stored(second_bars, sym)) }
    \cup { Stored(minute_bars, sym)[i] : i \in 1..Len(Stored(minute_bars, sym)) }
    \cup { current_second_bar[s] : s \in DOMAIN current_second_bar \cap {sym} }
    \cup { current_minute_bar[s] : s \in DOMAIN current_minute_bar \cap {sym} }

FinalizedBars(sym) ==
    { Stored(second_bars, sym)[i] : i \in 1..Len(Stored(second_bars, sym)) }
    \cup { Stored(minute_bars, sym)[i] : i \in 1..Len(Stored(minute_bars, sym)) }

\* the step folds a tick of sym / is a sweep at wall clock last'.time
TickStep(sym) == last'.op = "tick" /\ last'.sym = sym
SweepStep == last'.op = "sweep"

----------------------------------------------------------------------------
(* C1..C10 *)

\* C1: after K ingests of ticks of one symbol into a buffer of capacity C the buffer
\* holds exactly the last min(K, C) ingested ticks in ingest order: its size is
\* min(K, C) and its last element is the tick ingested last.  (SpecIngest)
C1_BufferHoldsLastTicks ==
    \A sym \in Symbols :
        LET K == Len(ingested[sym])
            n == Min(K, TICK_BUFFER_SIZE)
        IN  IF K = 0 THEN sym \notin DOMAIN ticks
            ELSE /\ sym \in DOMAIN ticks
                 /\ tick_count[sym] = K
                 /\ Len(ticks[sym]) = n
                 /\ ticks[sym] = SubSeq(ingested[sym], K - n + 1, K)
                 /\ ticks[sym][n] = ingested[sym][K]
                 /\ last_tick[sym] = ingested[sym][K]

\* a buffer that has evicted: more ticks ingested than it holds
C1_Witness ==
    /\ last.op = "ingest"
    /\ \E sym \in DOMAIN ticks :
          /\ Len(ingested[sym]) > TICK_BUFFER_SIZE
          /\ Len(ticks[sym]) = TICK_BUFFER_SIZE

\* C2: every bar of either interval, current or finalized, reached by any ticks of
\* price > 0 and quantity >= 0 (late and out-of-order ones included) and any
\* sweeps, has low <= open <= high, low <= close <= high and volume >= 0.  (Spec)
C2_BarsAreOHLCV ==
    \A sym \in Symbols : \A b \in AllBars(sym) : OHLCV(b)

\* a finalized 1m bar that a late tick was folded into, with low < high, after a sweep
C2_Witness ==
    /\ sweeps > 0
    /\ \E i \in 1..Len(Stored(minute_bars, "BTCUSDT")) :
          LET b == minute_bars["BTCUSDT"][i]
          IN  b.low < b.high /\ b.from # {b.timestamp}

\* C3: every tick folded into a finalized bar B of interval I has
\* floor(trade-time, I) = B.bucket-start, whatever the order of the ticks.  (Spec)
C3_ContributorsShareBucket ==
    \A sym \in Symbols : \A b \in FinalizedBars(sym) : b.from = {b.timestamp}

\* C4: a tick whose bucket is strictly earlier than the bucket-start of the current
\* bar of an interval leaves that interval's current bar and finalized bars
\* unchanged, for 1s and for 1m.  (Spec)
C4_LateTickDropped ==
    [][\A sym \in Symbols : TickStep(sym) =>
          /\ (/\ sym \in DOMAIN current_second_bar
              /\ FloorSecond(last'.time) < current_second_bar[sym].timestamp)
             => /\ sym \in DOMAIN current_second_bar'
                /\ current_second_bar'[sym] = current_second_bar[sym]
                /\ Stored(second_bars', sym) = Stored(second_bars, sym)
          /\ (/\ sym \in DOMAIN current_minute_bar
              /\ FloorMinute(last'.time) < current_minute_bar[sym].timestamp)
             => /\ sym \in DOMAIN current_minute_bar'
                /\ current_minute_bar'[sym] = current_minute_bar[sym]
                /\ Stored(minute_bars', sym) = Stored(minute_bars, sym)
      ]_vars

\* C5: for ticks of one symbol with non-decreasing trade-times, swept at any wall
\* clock, the bucket-starts of finalized[1m,sym] are strictly increasing, so no
\* two finalized bars share a bucket-start.  (SpecMono)
C5_MonotoneMinuteBarsIncrease ==
    \A sym \in Symbols : StrictlyIncreasing(Stored(minute_bars, sym))

\* two finalized 1m bars, the current bar of the later bucket being one that the
\* finalizer closed before and a tick opened again
C5_Witness ==
    /\ Len(Stored(minute_bars, "BTCUSDT")) >= 2
    /\ "BTCUSDT" \in DOMAIN current_minute_bar
    /\ HasBucket(minute_bars["BTCUSDT"], current_minute_bar["BTCUSDT"].timestamp)

\* C6: under any ticks and sweeps the finalized bars of each symbol and interval
\* are in strictly increasing bucket-start order.  (Spec)
C6_FinalizedInBucketOrder ==
    \A sym \in Symbols :
        /\ StrictlyIncreasing(Stored(second_bars, sym))
        /\ StrictlyIncreasing(Stored(minute_bars, sym))

\* the finalized bars after a step: those before it less some oldest ones, evicted
\* only when the list is at its cap, plus at most one appended bar
KeepsBars(old, new) ==
    \E k \in 0..Len(old) :
        LET kept == SubSeq(old, k + 1, Len(old))
        IN  /\ k > 0 => Len(new) = max_bars_per_symbol
            /\ \/ new = kept
               \/ /\ Len(new) = Len(kept) + 1
                  /\ SubSeq(new, 1, Len(kept)) = kept

\* C7: a finalized bar is immutable: no tick fold and no sweep changes a field of a
\* bar of finalized[I,sym]; a bar only leaves the list, oldest first, by the cap.  (Spec)
C7_FinalizedBarsImmutable ==
    [][\A sym \in Symbols :
          /\ KeepsBars(Stored(second_bars, sym), Stored(second_bars', sym))
          /\ KeepsBars(Stored(minute_bars, sym), Stored(minute_bars', sym))
      ]_vars

\* a finalized 1m bar whose bucket has a current bar again, opened by a later tick
\* and updated by another
C7_Witness ==
    /\ "BTCUSDT" \in DOMAIN current_minute_bar
    /\ HasBucket(Stored(minute_bars, "BTCUSDT"), current_minute_bar["BTCUSDT"].timestamp)
    /\ current_minute_bar["BTCUSDT"].volume >= 2

\* the fold of C8 for one interval: current bar cur, finalized old before and new after
LaterTickFold(cur, old, new, cur2, bucket, p, q) ==
    /\ IF HasBucket(old, cur.timestamp) THEN new = old ELSE AppendedTo(old, new, cur)
    /\ cur2.timestamp = bucket
    /\ cur2.open = p /\ cur2.high = p /\ cur2.low = p /\ cur2.close = p
    /\ cur2.volume = q

\* C8: a tick (p, q) whose bucket is strictly later than the bucket-start of the
\* current bar of an interval appends that bar unchanged to finalized[I,sym] iff no
\* bar of its bucket-start is there, and the current bar becomes the bar of the
\* tick's bucket with open = high = low = close = p and volume = q.  (SpecMono)
C8_LaterTickFinalizes ==
    [][\A sym \in Symbols : TickStep(sym) =>
          /\ (/\ sym \in DOMAIN current_second_bar
              /\ current_second_bar[sym].timestamp < FloorSecond(last'.time))
             => /\ sym \in DOMAIN current_second_bar'
                /\ LaterTickFold(current_second_bar[sym], Stored(second_bars, sym),
                                 Stored(second_bars', sym), current_second_bar'[sym],
                                 FloorSecond(last'.time), last'.price, last'.qty)
          /\ (/\ sym \in DOMAIN current_minute_bar
              /\ current_minute_bar[sym].timestamp < FloorMinute(last'.time))
             => /\ sym \in DOMAIN current_minute_bar'
                /\ LaterTickFold(current_minute_bar[sym], Stored(minute_bars, sym),
                                 Stored(minute_bars', sym), current_minute_bar'[sym],
                                 FloorMinute(last'.time), last'.price, last'.qty)
      ]_vars

\* a tick of a later minute has closed a 1m bar of two ticks, of volume 3 and low < high
C8_Witness ==
    /\ last.op = "tick"
    /\ "BTCUSDT" \in DOMAIN current_minute_bar
    /\ current_minute_bar["BTCUSDT"].timestamp = FloorMinute(last.time)
    /\ current_minute_bar["BTCUSDT"].volume = last.qty
    /\ \E i \in 1..Len(Stored(minute_bars, "BTCUSDT")) :
          LET b == minute_bars["BTCUSDT"][i]
          IN  /\ i = Len(minute_bars["BTCUSDT"])
              /\ b.timestamp < FloorMinute(last.time)
              /\ b.volume = 3 /\ b.low < b.high /\ b.volume # last.qty

\* the bar of bucket-start start is due at wall clock w
Due(start, w) ==
    \/ start < FloorMinute(w) - MsPerMinute
    \/ start = FloorMinute(w) - MsPerMinute /\ SecondOf(w) > 5

\* C9: a sweep at wall clock W finalizes the current 1m bar B of a symbol iff
\* B.bucket-start < floor(W,1m) - 1m, or B.bucket-start = floor(W,1m) - 1m and
\* W.second > 5; otherwise B stays in current[1m,sym] untouched.  (Spec)
C9_SweepFinalizesDueBars ==
    [][SweepStep =>
          \A sym \in DOMAIN current_minute_bar :
             LET B == current_minute_bar[sym]
             IN  IF Due(B.timestamp, last'.time)
                 THEN /\ sym \notin DOMAIN current_minute_bar'
                      /\ HasBucket(Stored(minute_bars', sym), B.timestamp)
                 ELSE /\ sym \in DOMAIN current_minute_bar'
                      /\ current_minute_bar'[sym] = B
                      /\ Stored(minute_bars', sym) = Stored(minute_bars, sym)
      ]_vars

\* a sweep within the first 5 seconds of a minute has left the bar of the previous
\* minute in place
C9_Witness ==
    /\ last.op = "sweep"
    /\ SecondOf(last.time) <= 5
    /\ "BTCUSDT" \in DOMAIN current_minute_bar
    /\ current_minute_bar["BTCUSDT"].timestamp = FloorMinute(last.time) - MsPerMinute

\* C10: when the finalizer finalizes the current 1m bar of a symbol the bar is
\* appended to finalized[1m,sym] iff no bar of its bucket-start is there, and
\* current[1m,sym] is absent afterwards in either case; the bars of the symbols
\* it does not finalize and of the 1s interval are unchanged.  (SpecPair)
C10_FinalizeAppendsOnceAndClears ==
    [][SweepStep =>
          /\ \A sym \in Symbols :
                IF /\ sym \in DOMAIN current_minute_bar
                   /\ Due(current_minute_bar[sym].timestamp, last'.time)
                THEN LET B == current_minute_bar[sym]
                         old == Stored(minute_bars, sym)
                         new == Stored(minute_bars', sym)
                     IN  /\ IF HasBucket(old, B.timestamp) THEN new = old
                            ELSE AppendedTo(old, new, B)
                         /\ sym \notin DOMAIN current_minute_bar'
                ELSE /\ Stored(minute_bars', sym) = Stored(minute_bars, sym)
                     /\ sym \in DOMAIN current_minute_bar' <=> sym \in DOMAIN current_minute_bar
                     /\ sym \in DOMAIN current_minute_bar
                           => current_minute_bar'[sym] = current_minute_bar[sym]
          /\ second_bars' = second_bars
          /\ current_second_bar' = current_second_bar
      ]_vars

\* the only sweep so far has finalized the bar of one symbol and left the current
\* bar of the other symbol
C10_Witness ==
    /\ last.op = "sweep" /\ sweeps = 1
    /\ "BTCUSDT" \notin DOMAIN current_minute_bar
    /\ Len(Stored(minute_bars, "BTCUSDT")) >= 1
    /\ "ETHUSDT" \in DOMAIN current_minute_bar

----------------------------------------------------------------------------
(* C11..C20 *)

\* the current 1m bar of sym is B, of bucket-start M, and n ticks have been folded
SilentBar(sym, M, n) ==
    /\ sym \in DOMAIN current_minute_bar
    /\ current_minute_bar[sym].timestamp = M
    /\ folds = n

\* C11 as stated: a sweep whose wall clock is later than M + 1 minute + 5 seconds
\* archives the current 1m bar B of bucket-start M: B is in finalized[1m,sym] and
\* current[1m,sym] is absent after it.  (SpecLive)
C11_ArchivedAtFirstSweepAfterGrace ==
    [][SweepStep =>
          \A sym \in DOMAIN current_minute_bar :
             LET B == current_minute_bar[sym]
             IN  last'.time > B.timestamp + MsPerMinute + GraceSeconds * MsPerSecond
                 => /\ sym \notin DOMAIN current_minute_bar'
                    /\ \E i \in 1..Len(Stored(minute_bars', sym)) :
                          minute_bars'[sym][i] = B
      ]_vars

\* C11: if a symbol has a current 1m bar of bucket-start M and no further tick of
\* the symbol is folded, then, the finalizer sweeping and the wall clock advancing,
\* eventually current[1m,sym] is absent and finalized[1m,sym] holds a bar of
\* bucket-start M; this happens at the first sweep whose wall clock W has
\* M < floor(W,1m) - 1m, or M = floor(W,1m) - 1m and W.second > 5, and the bar
\* appended is the current bar iff no bar of bucket-start M was there.  (SpecLive)
C11_SilentBarArchived ==
    /\ \A M \in { At(m, 0, 0) : m \in Minutes } : \A n \in 1..MaxLiveFolds :
          SilentBar("BTCUSDT", M, n)
             ~> \/ folds > n
                \/ /\ "BTCUSDT" \notin DOMAIN current_minute_bar
                   /\ HasBucket(Stored(minute_bars, "BTCUSDT"), M)
    /\ [][SweepStep =>
            \A sym \in DOMAIN current_minute_bar :
               LET B == current_minute_bar[sym]
                   old == Stored(minute_bars, sym)
                   new == Stored(minute_bars', sym)
               IN  IF Due(B.timestamp, last'.time)
                   THEN /\ sym \notin DOMAIN current_minute_bar'
                        /\ IF HasBucket(old, B.timestamp) THEN new = old
                           ELSE AppendedTo(old, new, B)
                   ELSE /\ sym \in DOMAIN current_minute_bar'
                        /\ current_minute_bar'[sym] = B
        ]_vars

\* the only tick folded opened a 1m bar, the upstream fell silent, and a sweep past
\* the grace period of the next minute has archived the bar
C11_Witness ==
    /\ last.op = "sweep" /\ last.time = now
    /\ folds = 1
    /\ SecondOf(now) > GraceSeconds
    /\ "BTCUSDT" \notin DOMAIN current_minute_bar
    /\ Len(Stored(minute_bars, "BTCUSDT")) = 1
    /\ minute_bars["BTCUSDT"][1].timestamp = FloorMinute(now) - MsPerMinute

\* the last n elements of a sequence
LastN(seq, n) == SubSeq(seq, Len(seq) - Min(n, Len(seq)) + 1, Len(seq))

\* C12: for every symbol and interval, after any ticks and sweeps, finalized[I,sym]
\* has at most cap bars and equals the last cap bars appended to it, in the order
\* of their appending: the bars removed are the oldest-appended ones.  (SpecCap)
C12_FinalizedIsLastCapBars ==
    \A sym \in Symbols :
        /\ Len(Stored(second_bars, sym)) <= max_bars_per_symbol
        /\ Len(Stored(minute_bars, sym)) <= max_bars_per_symbol
        /\ Stored(second_bars, sym) = LastN(archived["1s"][sym], max_bars_per_symbol)
        /\ Stored(minute_bars, sym) = LastN(archived["1m"][sym], max_bars_per_symbol)

\* more bars than the cap have been appended to the 1s list by ticks and to the 1m
\* list by ticks and a sweep
C12_Witness ==
    /\ last.op = "sweep"
    /\ Len(archived["1s"]["BTCUSDT"]) > max_bars_per_symbol
    /\ Len(archived["1m"]["BTCUSDT"]) > max_bars_per_symbol
    /\ Len(Stored(second_bars, "BTCUSDT")) = max_bars_per_symbol
    /\ Len(Stored(minute_bars, "BTCUSDT")) = max_bars_per_symbol

\* finalized[I,sym] ++ (current[I,sym] if present), as the dictionaries of get_bars
ListedBars(stored, current, sym) ==
    LET f == Stored(stored, sym)
        d == [i \in 1..Len(f) |-> BarDict(f[i])]
    IN  IF sym \in DOMAIN current THEN Append(d, BarDict(current[sym])) ELSE d

Ascending(result) ==
    \A i, j \in 1..Len(result) : i < j => result[i].timestamp <= result[j].timestamp

\* C13: for every symbol, interval I in {1s, 1m} and N >= 0, get_bars(sym, I, N)
\* returns at most N bars: the last min(N, total) elements of finalized[I,sym] ++
\* (current[I,sym] if present) sorted by bucket-start ascending; the call leaves
\* the bars of the resampler unchanged.  (SpecBars)
C13_GetBarsReturnsLastN ==
    [][(reply'.op = "get_bars" /\ reply'.interval \in Intervals) =>
          LET sym == reply'.symbols[1]
              N == reply'.n
              all == IF reply'.interval = "1m"
                     THEN ListedBars(minute_bars, current_minute_bar, sym)
                     ELSE ListedBars(second_bars, current_second_bar, sym)
          IN  /\ Len(reply'.result) <= N
              /\ Ascending(reply'.result)
              /\ reply'.result = LastN(SortByTimestamp(all), Min(N, Len(all)))
              /\ barVars' = barVars
      ]_vars

\* C14: for a non-empty list of requested symbols, price_history(symbols, I, N)
\* returns exactly min over the symbols of |get_bars(sym, I, N)| rows (none when
\* the minimum is 0); every row carries a close for exactly the requested symbols;
\* the k-th row from the end holds each symbol's k-th bar from the end, its
\* timestamp being the bucket-start of the first symbol's bar.  (SpecHistory)
C14_PriceHistoryAlignsByTail ==
    reply.op = "price_history" =>
        LET symbols == reply.symbols
            rows == reply.result
            m == CHOOSE x \in 0..(MaxQueryFolds + 1) :
                    /\ \A i \in 1..Len(symbols) :
                           x <= Len(GetBars(symbols[i], reply.interval, reply.n))
                    /\ \E i \in 1..Len(symbols) :
                           x = Len(GetBars(symbols[i], reply.interval, reply.n))
        IN  /\ Len(rows) = m
            /\ \A k \in 1..m :
                  LET row == rows[m - k + 1]
                  IN  /\ DOMAIN row = {"timestamp"} \cup Range(symbols)
                      /\ \A i \in 1..Len(symbols) :
                            LET bars == GetBars(symbols[i], reply.interval, reply.n)
                                bar == bars[Len(bars) - k + 1]
                            IN  /\ row[symbols[i]] = bar.close
                                /\ i = 1 => row["timestamp"] = bar.timestamp

\* a history of one row for a symbol of one bar and a symbol of two: the row pairs
\* the last bars of the two, whose bucket-starts differ
C14_Witness ==
    /\ reply.op = "price_history"
    /\ reply.symbols = <<"ETHUSDT", "BTCUSDT">>
    /\ Len(reply.result) = 1
    /\ Len(GetBars("BTCUSDT", reply.interval, reply.n)) = 2
    /\ reply.result[1]["timestamp"] # GetBars("BTCUSDT", reply.interval, reply.n)[2].timestamp
    /\ reply.result[1]["BTCUSDT"] = GetBars("BTCUSDT", reply.interval, reply.n)[2].close

Cooldown == cooldown_seconds * MsPerSecond

\* the step is a call of create_alert
CreateStep == reply'.op = "create_alert" /\ calls' = calls + 1

\* the cooldown of the key has elapsed at the wall clock t, or the key never fired
Elapsed(key, t) ==
    key \in DOMAIN last_alert_time => t - last_alert_time[key] >= Cooldown

\* C15: for any key K and any sequence of create_alert calls, two consecutive
\* alerts emitted with key K have emit instants at least cooldown seconds apart;
\* keys are independent: a call with a key whose own cooldown has elapsed emits,
\* whatever the other keys did.  (SpecAlerts)
C15_EmitsOfAKeyCooldownApart ==
    /\ [](\A i, j \in 1..Len(emitted) :
            (i < j /\ emitted[i].key = emitted[j].key)
               => emitted[j].at - emitted[i].at >= Cooldown)
    /\ [][(CreateStep /\ Elapsed(reply'.key, reply'.at))
             => /\ Len(emitted') = Len(emitted) + 1
                /\ emitted'[Len(emitted')].key = reply'.key
       ]_vars

\* a key emitted twice, a full cooldown apart, an alert of the other key emitted
\* between the two, less than a cooldown before the second
C15_Witness ==
    \E i, j, k \in 1..Len(emitted) :
        /\ i < k /\ k < j
        /\ emitted[i].key = emitted[j].key
        /\ emitted[k].key # emitted[j].key
        /\ emitted[j].at - emitted[k].at < Cooldown

\* C16: a create_alert call suppressed by the cooldown returns no alert and changes
\* nothing: the ring, last_fire and the record of callback invocations are as
\* before; a call made at or after last_fire[key] + cooldown appends a new alert,
\* refreshes last_fire[key] and invokes every subscriber.  (SpecAlerts)
C16_SuppressedCallChangesNothing ==
    [][CreateStep =>
          IF ~Elapsed(reply'.key, reply'.at)
          THEN /\ reply'.result = <<>>
               /\ UNCHANGED <<alerts, last_alert_time, alert_callbacks, delivered,
                              emitted, now>>
          ELSE /\ Len(reply'.result) = 1
               /\ alerts' # <<>> /\ alerts'[Len(alerts')] = reply'.result[1]
               /\ Len(emitted') = Len(emitted) + 1
               /\ last_alert_time'[reply'.key] >= reply'.at
               /\ delivered' = delivered \o
                     [c \in 1..Len(alert_callbacks) |->
                        [callback |-> alert_callbacks[c], alert |-> reply'.result[1]]]
      ]_vars

\* the scenario of the spec: an alert at t = 0, the same call suppressed at t = 30 s,
\* and an alert of the same key again at t = 61 s, delivered to a subscriber
C16_Witness ==
    /\ calls = 3 /\ reply.op = "create_alert" /\ reply.at = 61000
    /\ Len(emitted) = 2
    /\ emitted[1].key = emitted[2].key
    /\ emitted[1].at <= 1 /\ emitted[2].at >= 61000
    /\ Len(delivered) >= 1

\* C17: after any sequence of emits the ring holds at most capacity alerts, and
\* they are the most recently emitted ones, in emission order.  (SpecAlerts)
C17_RingHoldsLastEmits ==
    /\ Len(alerts) <= max_alerts
    /\ alerts = LastN([i \in 1..Len(emitted) |-> emitted[i].alert], max_alerts)

\* more alerts emitted than the ring holds
C17_Witness ==
    /\ Len(emitted) > max_alerts
    /\ Len(alerts) = max_alerts
    /\ alerts[1].id = Len(emitted) - max_alerts + 1

\* the step is a call of evaluate_summary_alerts
SummaryStep == reply'.op = "evaluate_summary" /\ calls' = calls + 1

\* the alerts of a metric among those a call created
OfMetric(created, metric) == SelectSeq(created, LAMBDA a : a.metric = metric)

\* C18: when evaluate is invoked with a snapshot whose |z| > threshold and the
\* cooldown of the key has elapsed, exactly one z-score alert is emitted: kind
\* ALERT, metric z_score, value z, threshold the threshold, direction above if
\* z > 0 else below; no z-score warning is emitted for the snapshot.  (SpecRules)
C18_BreachEmitsOneAlert ==
    [][SummaryStep =>
          LET in == reply'.inputs
              zs == OfMetric(reply'.result, "z_score")
          IN  (/\ Abs(in.zScore) > in.threshold
               /\ Elapsed(AlertKey("ALERT", "Z-Score Threshold Breach", "None"),
                          reply'.at))
              => /\ Len(zs) = 1
                 /\ zs[1].type = "ALERT"
                 /\ zs[1].value = in.zScore
                 /\ zs[1].threshold = in.threshold
                 /\ zs[1].direction = IF in.zScore > 0 THEN "above" ELSE "below"
                 /\ alerts'[Len(alerts')] \in Range(reply'.result)
      ]_vars

\* a breach below the threshold 2.5 has emitted an ALERT, a breach before it having
\* emitted one more than a cooldown earlier
C18_Witness ==
    /\ reply.op = "evaluate_summary"
    /\ reply.inputs.zScore = -260 /\ reply.inputs.threshold = 250
    /\ \E i \in 1..Len(reply.result) :
          reply.result[i].type = "ALERT" /\ reply.result[i].direction = "below"
    /\ Len(SelectSeq(emitted, LAMBDA e : e.alert.type = "ALERT")) = 2

\* C19: when the orchestrator invokes evaluate_summary_alerts with a snapshot where
\* 0.8 * threshold < |z| <= threshold and the cooldown of the key has elapsed, a
\* warning with metric z_score and threshold 0.8 * threshold is emitted.  (SpecRules)
C19_ApproachEmitsWarning ==
    [][SummaryStep =>
          LET in == reply'.inputs
              zs == OfMetric(reply'.result, "z_score")
          IN  (/\ Abs(in.zScore) > EightTenths(in.threshold)
               /\ Abs(in.zScore) <= in.threshold
               /\ Elapsed(AlertKey("warning", "Z-Score Approaching Threshold", "None"),
                          reply'.at))
              => /\ Len(zs) = 1
                 /\ zs[1].type = "warning"
                 /\ zs[1].threshold = EightTenths(in.threshold)
      ]_vars

\* C20: when evaluate is invoked with a snapshot whose |rho| < 0.5, whether or not
\* a z-score rule fired, a warning with metric correlation, direction below and
\* threshold 0.5 is emitted if the cooldown of its key has elapsed; when
\* |rho| >= 0.5 no correlation alert is emitted.  (SpecRules)
C20_LowCorrelationEmitsWarning ==
    [][SummaryStep =>
          LET in == reply'.inputs
              cs == OfMetric(reply'.result, "correlation")
          IN  IF /\ Abs(in.correlation) < MinCorrelation
                 /\ Elapsed(AlertKey("warning", "Low Correlation Detected", "None"),
                            reply'.at)
              THEN /\ Len(cs) = 1
                   /\ cs[1].type = "warning"
                   /\ cs[1].direction = "below"
                   /\ cs[1].threshold = MinCorrelation
                   /\ cs[1].value = in.correlation
              ELSE cs = <<>>
      ]_vars

\* one call has emitted a z-score ALERT and a correlation warning; the call before
\* it emitted a correlation warning and no z-score alert
C20_Witness ==
    /\ reply.op = "evaluate_summary" /\ calls = 2
    /\ OfMetric(reply.result, "z_score") # <<>>
    /\ OfMetric(reply.result, "correlation") # <<>>
    /\ Len(OfMetric([i \in 1..Len(emitted) |-> emitted[i].alert], "correlation")) = 2
    /\ Len(OfMetric([i \in 1..Len(emitted) |-> emitted[i].alert], "z_score")) = 1

----------------------------------------------------------------------------
(* Claims C21..C30 *)

\* C22: on every emit, each registered alert subscriber callback is invoked exactly
\* once with the new alert, in registration order; a callback that raises does not
\* prevent the remaining callbacks from being invoked, and the alert is still
\* appended to the ring, last_fire[key] is still updated and create_alert still
\* returns the alert.  (SpecNotify)
C22_EveryCallbackInvokedOnce ==
    [][(CreateStep /\ reply'.result # <<>>) =>
          LET alert == reply'.result[1]
              n == Len(alert_callbacks)
          IN  /\ Len(delivered') = Len(delivered) + n
              /\ SubSeq(delivered', 1, Len(delivered)) = delivered
              /\ \A c \in 1..n :
                    /\ delivered'[Len(delivered) + c].callback = alert_callbacks[c]
                    /\ delivered'[Len(delivered) + c].alert = alert
              /\ alerts' # <<>> /\ alerts'[Len(alerts')] = alert
              /\ reply'.key \in DOMAIN last_alert_time'
              /\ last_alert_time'[reply'.key] = now'
              /\ emitted'[Len(emitted')].alert = alert
      ]_vars

\* an alert was emitted to a raising callback registered before a sound one, and
\* both were invoked with it
C22_Witness ==
    /\ reply.op = "create_alert" /\ reply.result # <<>>
    /\ alert_callbacks = <<"raising", "on_alert">>
    /\ Len(delivered) >= 2
    /\ delivered[Len(delivered) - 1] = [callback |-> "raising", alert |-> reply.result[1]]
    /\ delivered[Len(delivered)] = [callback |-> "on_alert", alert |-> reply.result[1]]
    /\ alerts[Len(alerts)] = reply.result[1]

\* the step is a call of get_active_alerts
ListStep == reply'.op = "get_active_alerts"

\* the n most recently emitted alerts of the ring, newest first
NewestFirst(ring, n) == [i \in 1..Min(n, Len(ring)) |-> ring[Len(ring) + 1 - i]]

\* C23: for every limit >= 0 (when given), list(limit) returns the min(limit, ring
\* size) most recently emitted alerts, newest first; without a limit it returns the
\* whole ring newest-first; the ring itself is not modified.  (SpecNotify)
C23_ListReturnsNewestLimit ==
    [][ListStep =>
          LET limit == reply'.inputs
          IN  /\ alerts' = alerts
              /\ reply'.result =
                    IF limit = <<>> THEN NewestFirst(alerts, Len(alerts))
                    ELSE NewestFirst(alerts, limit[1])
      ]_vars

\* the step is the start of an iteration of the periodic job
JobStep == reply'.op = "analytics_processor"

\* the sample standard deviation of the base closes of the last window rows
BaseVolatility(price_history, window) ==
    SampleStd(SliceFrom([k \in 1..Len(price_history) |->
                            price_history[k].items[BASE_SYMBOL]], 0 - window))

\* C21: when the periodic job computes a summary from an aligned price history
\* with at least window-size rows whose base closes have a rolling sample
\* standard deviation over the last W values greater than 500, the summary's
\* rolling volatility is that value (not the fallback 0) and a warning with
\* metric volatility and direction above is emitted, cooldown permitting.
\* (SpecJob)
C21_HighVolatilityEmitsWarning ==
    [][JobStep =>
          LET in == reply'.inputs
              vs == OfMetric(reply'.result, "volatility")
          IN  (/\ Len(in.price_history) >= Max(windowSize, 2)
               /\ BaseVolatility(in.price_history, windowSize) > MaxVolatility)
              => /\ in.summary # <<>>
                 /\ in.summary[1].rollingVolatility
                        = BaseVolatility(in.price_history, windowSize)
                 /\ Elapsed(AlertKey("warning", "High Volatility Alert", "None"),
                            reply'.at)
                    => /\ Len(vs) = 1
                       /\ vs[1].type = "warning"
                       /\ vs[1].direction = "above"
      ]_vars

\* the fan-out of the call is over: the loop over the pool came to its end
FannedOut(p) == p.pc \in {"returned", "blocked", "waiting"}

\* C24: when a message is published to a topic and the send to some subscribers
\* raises, every subscriber of the topic whose send succeeds receives the message,
\* each failing subscriber is removed from the topic set and from the
\* all-connections map after the fan-out, and the publish returns.  (SpecJob)
C24_FailedSubscribersDropped ==
    \A k \in DOMAIN publishes :
        LET p == publishes[k]
        IN  (FannedOut(p) /\ p.failed # {})
            => /\ \A c \in p.visited \ p.failed :
                     \E i \in 1..Len(sent[c]) : sent[c][i] = p.message
               /\ p.pc = "returned"
               /\ p.failed \cap connections[p.topic] = {}
               /\ p.failed \cap DOMAIN all_connections = {}

\* C25: publishing to a topic operates on a snapshot of the subscriber set taken
\* when the publish starts: a connect or disconnect on the same topic that runs
\* while the sends are in progress neither changes the recipients of the publish
\* nor makes the publish fail.  (SpecJob)
C25_PublishUsesSnapshot ==
    \A k \in DOMAIN publishes :
        LET p == publishes[k]
        IN  /\ p.pc # "raised"
            /\ FannedOut(p) => p.visited = p.start

\* the topics the orchestrator publishes to
JobTopics == {"prices", "spread", "correlation", "summary", "analytics"}

\* C26: if the orchestrator publishes m1 and later m2 to the same topic (prices,
\* spread, correlation, summary or analytics), every subscriber of the topic that
\* is sent both is sent m1 before m2.  (SpecJob)
C26_TopicOrderIsPublishOrder ==
    \A ws \in DOMAIN sent :
        \A i, j \in 1..Len(sent[ws]) :
            (/\ i < j
             /\ sent[ws][i].type \in JobTopics
             /\ sent[ws][i].type = sent[ws][j].type)
            => sent[ws][i].seq < sent[ws][j].seq

\* two subscribers of the analytics topic were sent the messages of two
\* iterations, the second subscriber registered while the job was running
C26_Witness ==
    /\ {1, 2} \subseteq DOMAIN sent
    /\ Len(sent[1]) = 2 /\ Len(sent[2]) = 2
    /\ sent[1][1].type = "analytics" /\ sent[2][2].type = "analytics"
    /\ sent[1][2].seq = 2

\* C27: in every iteration of the periodic job in which the latest-prices snapshot
\* is non-empty, the combined analytics message is published to topic analytics,
\* whether or not analytics could be computed: an iteration that awaits
\* broadcast_all goes on to broadcast_analytics.  (SpecJobFair)
C27_AnalyticsAlwaysPublished ==
    (job.pc = "broadcast_all" /\ job.prices_dict # <<>>)
        ~> (job.pc = "broadcast_analytics" \/ job.pc = "sleeping")

\* the step is a frame handled by _handle_message
HandleStep == reply'.op = "_handle_message"

\* the frame passes every check of the tick source
Valid(frame) ==
    /\ frame.json = "object" /\ frame.wrapped
    /\ frame.e = <<"trade">>
    /\ frame.X # <<"NA">>
    /\ frame.s # <<>> /\ Upper(frame.s[1]) \in Symbols
    /\ frame.p # <<>> /\ GreaterThanZero(Float(frame.p[1]))
    /\ frame.T # <<>> /\ frame.T[1] > 0

\* C30: every tick the tick source dispatches comes from a frame of event kind
\* trade and order type other than NA, and has a tracked symbol, a price > 0 and
\* a trade time > 0; a frame that fails one of these checks, or is malformed, is
\* dropped: no callback is invoked and the message counter is unchanged.
\* (SpecSource)
C30_OnlyValidTradesDispatched ==
    [][HandleStep =>
          LET frame == reply'.inputs
          IN  /\ \A i \in 1..Len(reply'.result) :
                    /\ Valid(frame)
                    /\ reply'.result[i].tick.symbol \in Symbols
                    /\ GreaterThanZero(reply'.result[i].tick.price)
                    /\ reply'.result[i].tick.timestamp > 0
              /\ ~Valid(frame) => /\ dispatched' = dispatched
                                  /\ message_count' = message_count
      ]_vars

\* the wait the backoff prescribes after the k-th error in a row, in seconds
Backoff(k) == Min(reconnect_delay * 2 ^ (k - 1), max_reconnect_delay)

\* C28: after the k-th consecutive transport error or close without a successful
\* connection in between, the tick source waits min(5 * 2^(k-1), 60) seconds
\* before the next connection attempt; a successful connection resets the
\* backoff, so that the wait after the next error is 5 seconds.  (SpecSource)
C28_BackoffDoubles ==
    [][(source'.pc = "sleeping" /\ source.pc # "sleeping")
          => source'.delay = Backoff(source'.errors)
      ]_vars

\* C29: once stop() has returned, the start() loop eventually exits with the
\* transport closed and no websocket kept, whatever the tick source was doing
\* when stop() was requested.  (SpecSourceFair)
C29_StopEndsTheLoop ==
    (stopper = "returned")
        ~> (source.pc = "exited" /\ transport # "open" /\ websocket = <<>>)

\* C34: each valid tick is emitted to all registered tick subscribers, in
\* registration order; a subscriber that raises does not prevent the remaining
\* subscribers from receiving the tick, nor later ticks from being dispatched.
\* (SpecSource)
C34_TickReachesEverySubscriber ==
    [][(HandleStep /\ message_count' = message_count + 1) =>
          /\ Len(reply'.result) = Len(tick_callbacks)
          /\ \A c \in 1..Len(tick_callbacks) :
                /\ reply'.result[c].callback = tick_callbacks[c]
                /\ reply'.result[c].tick = reply'.result[1].tick
          /\ dispatched' = dispatched \o reply'.result
      ]_vars

\* two ticks were dispatched to a callback that raises and, after it, to
\* handle_tick
C34_Witness ==
    /\ tick_callbacks = <<"raising", "handle_tick">>
    /\ message_count = 2
    /\ Len(dispatched) = 4
    /\ dispatched[3].callback = "raising" /\ dispatched[4].callback = "handle_tick"
    /\ dispatched[4].tick = dispatched[3].tick

\* the bucket-starts of a list of bars are all different
DistinctBuckets(result) ==
    \A i, j \in 1..Len(result) : i # j => result[i].timestamp # result[j].timestamp

\* C38: for every symbol and interval, after any sequence of tick folds and
\* finalizer sweeps, get_bars never returns two bars of the same bucket-start:
\* the bucket-start of the current bar differs from that of every stored bar.
\* (Spec)
C38_NoTwoBarsOfOneBucket ==
    \A sym \in Symbols, interval \in Intervals :
        DistinctBuckets(GetBars(sym, interval, max_bars_per_symbol + 1))

\* the volume of the 1m bars of a symbol, stored and current
MinuteVolume(stored, current, sym) ==
    Sum([i \in 1..Len(Stored(stored, sym)) |-> Stored(stored, sym)[i].volume])
    + (IF sym \in DOMAIN current THEN current[sym].volume ELSE 0)

\* C39: no tick is lost from the 1m bars: with non-decreasing trade-times,
\* sweeps at any wall clock and fewer stored bars than the cap, the volumes of
\* the stored 1m bars and of the current 1m bar add up to the quantities of the
\* ticks folded: a tick adds its quantity to the total, a sweep leaves the total
\* alone.  (SpecMono)
C39_MinuteVolumeIsConserved ==
    [][\A sym \in Symbols :
          Len(Stored(minute_bars, sym)) < max_bars_per_symbol =>
             MinuteVolume(minute_bars', current_minute_bar', sym)
                = MinuteVolume(minute_bars, current_minute_bar, sym)
                  + (IF last'.op = "tick" /\ last'.sym = sym THEN last'.qty ELSE 0)
      ]_vars

\* a call of broadcast_to_pool is in progress with a send that failed
FailedSendPending ==
    \E k \in DOMAIN publishes : publishes[k].failed # {} /\ ~Settled(publishes[k])

\* C37: the broadcast fabric is free of deadlock: no task waits for ever on
\* the mutex of the connection manager, and every publish returns, in particular
\* one during which a send fails: such a publish is eventually over, with the
\* mutex free for the connects and disconnects that follow.  (SpecJobFair)
C37_FabricIsDeadlockFree ==
    FailedSendPending ~> (lock = <<>> /\ ~FailedSendPending)

\* C40: alerts reach the alerts topic in emission order: every subscriber of the
\* topic that is sent two alerts is sent the one emitted first before the other,
\* although each alert is broadcast by a task of its own.  (SpecAlertTopic)
C40_AlertsInEmissionOrder ==
    \A ws \in DOMAIN sent :
        \A i, j \in 1..Len(sent[ws]) :
            (i < j /\ sent[ws][i].type = "alert" /\ sent[ws][j].type = "alert")
            => sent[ws][i].seq < sent[ws][j].seq

\* two subscribers of the alerts topic were each sent the two alerts that one
\* call of evaluate_summary_alerts emitted
C40_Witness ==
    /\ reply.op = "analytics_processor" /\ Len(reply.result) = 2
    /\ \A ws \in {1, 2} :
          /\ ws \in DOMAIN sent
          /\ Len(sent[ws]) = 2
          /\ sent[ws][1].type = "alert" /\ sent[ws][2].type = "alert"

\* the step that begins an iteration of the periodic job and leaves it at an
\* await before the combined broadcast
IterationStep ==
    /\ job'.iteration = job.iteration + 1
    /\ job'.pc # "sleeping"

\* C35 as stated: in the combined analytics broadcast, spread and z-score are 0
\* exactly when the spread analysis of that iteration returned absent (or fewer
\* than 2 aligned rows exist), and correlation is 0 exactly when the correlation
\* returned absent; otherwise the values are those computed in the same
\* iteration.  (SpecJob)
C35_ZeroExactlyWhenAbsent ==
    [][IterationStep =>
        LET spread_data == reply'.inputs.spread_data
            correlation_data == reply'.inputs.correlation_data
        IN  /\ (job'.spread = 0 <=> spread_data = <<>>)
            /\ (job'.z_score = 0 <=> spread_data = <<>>)
            /\ (job'.correlation = 0 <=> correlation_data = <<>>)]_vars

\* C35, amended: in the combined analytics broadcast, spread and z-score are 0
\* when the spread analysis of that iteration returned absent (or fewer than 2
\* aligned rows exist) and correlation is 0 when the correlation returned
\* absent; otherwise the values are those computed in the same iteration, which
\* may be 0 themselves (the z-score of a spread that did not move); the values
\* stay as they are up to the broadcast.  (SpecJob)
C35_FallbackOrThisIteration ==
    [][/\ IterationStep =>
            LET spread_data == reply'.inputs.spread_data
                correlation_data == reply'.inputs.correlation_data
            IN  /\ job'.spread = IF spread_data = <<>> THEN 0 ELSE spread_data[1].spread
                /\ job'.z_score = IF spread_data = <<>> THEN 0 ELSE spread_data[1].zScore
                /\ job'.correlation = IF correlation_data = <<>> THEN 0
                                      ELSE correlation_data[1].correlation
       /\ (job.pc = "broadcast_all" /\ job'.pc = "broadcast_analytics")
            => /\ job'.iteration = job.iteration
               /\ job'.spread = job.spread
               /\ job'.z_score = job.z_score
               /\ job'.correlation = job.correlation]_vars

\* the combined broadcast of the second iteration is in progress with the
\* fallback values, after an iteration whose z-score raised the alert of the
\* threshold breach
C35_Witness ==
    /\ job.iteration = 2 /\ job.pc = "broadcast_analytics"
    /\ job.spread = 0 /\ job.z_score = 0 /\ job.correlation = 0
    /\ \E k \in 1..Len(alerts) : alerts[k].title = "Z-Score Threshold Breach"

\* the ticks of a symbol among the first n the tick source handed over
Received(sym, n) ==
    LET OfSymbol(invocation) == invocation.tick.symbol = sym
        first == SubSeq(dispatched, 1, n)
        chosen == SelectSeq(first, OfSymbol)
    IN  [k \in 1..Len(chosen) |-> chosen[k].tick]

\* C31: per symbol, ticks are processed in the order the tick source receives
\* them: the buffer holds the ticks processed so far in the order of their
\* arrival, the resampler folded them in that order (the open bar closes at the
\* price of the last of them), and a tick that is folded is in the buffer,
\* although every tick is processed by a task of its own.  (SpecTicks)
C31_TicksProcessedInArrivalOrder ==
    \A sym \in Symbols :
        LET received == Received(sym, folds)
        IN  /\ ingested[sym] = received
            /\ received # <<>> =>
                  /\ ticks[sym] = SliceFrom(received, 0 - TICK_BUFFER_SIZE)
                  /\ last_tick[sym] = received[Len(received)]
                  /\ current_second_bar[sym].close = received[Len(received)].price
            /\ (folds > 0 /\ last.sym = sym) =>
                  /\ last.price = dispatched[folds].tick.price
                  /\ last_tick[sym].price = last.price

\* two ticks of one symbol were processed, the second with an earlier trade-time
\* than the first, while a third tick waited for its task to run
C31_Witness ==
    /\ folds = 2 /\ Len(dispatched) = 3
    /\ Len(ingested["BTCUSDT"]) = 2
    /\ ingested["BTCUSDT"][2].timestamp < ingested["BTCUSDT"][1].timestamp

\* C32: within one iteration of the periodic job every use of the configuration
\* (selected symbols, z-score threshold, regression kind, window size) has the
\* value the configuration had at the start of the iteration, even when the
\* configuration is replaced by a settings update while the iteration is
\* suspended at an await.  (SpecLoops)
C32_OneSnapshotPerIteration ==
    \A key \in DOMAIN processor.uses :
        processor.uses[key] = processor.snapshot[key[2]]

\* the iteration has read every setting and is suspended in the combined
\* broadcast, and the settings were replaced since the iteration began
C32_Witness ==
    /\ processor.pc = "broadcast_analytics"
    /\ current_settings # processor.snapshot
    /\ <<"evaluate_summary_alerts", "zScoreThreshold">> \in DOMAIN processor.uses
    /\ <<"get_price_history", "selectedSymbols">> \in DOMAIN processor.uses

\* C33: the periodic tasks never terminate on an exception: the finalizer loop
\* and the analytics loop catch it and sleep, and a later iteration runs; the
\* finalizer ends only with its flag false, the analytics loop only cancelled.
\* (SpecLoops)
C33_LoopsSurviveExceptions ==
    [][/\ processor'.errors > processor.errors => processor'.pc = "except_sleep"
       /\ finalizer'.errors > finalizer.errors => finalizer'.pc = "except_sleep"
       /\ (processor.pc = "except_sleep" /\ processor' # processor)
            => \/ processor'.iteration = processor.iteration + 1
               \/ processor'.pc = "cancelled"
       /\ (finalizer.pc = "except_sleep" /\ finalizer' # finalizer)
            => \/ finalizer'.iteration = finalizer.iteration + 1
               \/ ~running /\ finalizer'.pc = "exited"
       /\ finalizer'.pc = "exited" => ~running']_vars

\* each loop caught an exception and is in a later iteration
C33_Witness ==
    /\ processor.errors = 1 /\ processor.iteration = 2
    /\ processor.pc = "broadcast_all"
    /\ finalizer.errors = 1 /\ finalizer.iteration = 2 /\ finalizer.pc = "sleep"

\* C36 as stated: the bar finalizer and the periodic job each exit their loop
\* after the running flag is false: once the stop is requested, a loop performs
\* at most the iteration in progress and begins no other.  (SpecLoops)
C36_LoopsExitOnFlag ==
    [][(~running /\ finalizer.pc # "none")
        => /\ finalizer'.iteration = finalizer.iteration
           /\ processor'.iteration = processor.iteration]_vars

\* C36, amended: the bar finalizer exits its loop after its running flag is
\* false: once stop is requested it performs at most the iteration in progress,
\* begins no other and can only leave the loop.  The periodic job has no running
\* flag: it loops until its task is cancelled, and then ends at the await where
\* it is suspended, without going on in its iteration.  (SpecLoops)
C36_FinalizerExitsOnFlag ==
    [][/\ (~running /\ finalizer.pc # "none")
            => /\ finalizer'.iteration = finalizer.iteration
               /\ finalizer'.pc \in {finalizer.pc, "exited"}
       /\ finalizer.pc = "exited" => finalizer' = finalizer
       /\ processor'.pc = "cancelled"
            => /\ processor'.iteration = processor.iteration
               /\ processor'.uses = processor.uses
       /\ processor.pc = "cancelled" => processor' = processor]_vars

\* the finalizer was stopped in its second sleep and left its loop, and the
\* periodic job was cancelled in the combined broadcast of its second iteration
C36_Witness ==
    /\ ~running /\ finalizer.pc = "exited" /\ finalizer.iteration = 2
    /\ processor.pc = "cancelled" /\ processor.iteration = 2
    /\ DOMAIN processor.uses # {}

====
